---- MODULE Spec2Model ----
(***************************************************************************)
(* Model of the cook configuration-management engine: the resource        *)
(* registry of the Executor, the Check -> Plan -> Apply pipeline of        *)
(* Resource, the resource kinds and the reload/restart trigger pass.       *)
(*                                                                         *)
(* Python values are modelled as strings: None is "nil", True/False are    *)
(* "true"/"false", an octal mode is its digits.  A state dictionary        *)
(* (actual_state / desired_state) is a sequence of <<key, value>> pairs in *)
(* insertion order.                                                        *)
(***************************************************************************)
EXTENDS Integers, Sequences, FiniteSets, TLC

\* ------------------------------------------------------------------------
\* Bounds
\* ------------------------------------------------------------------------
MaxObjs == 3

\* ------------------------------------------------------------------------
\* Values and dictionaries
\* ------------------------------------------------------------------------
Nil == "nil"

B(b) == IF b THEN "true" ELSE "false"

Has(d, k) == \E i \in 1..Len(d) : d[i][1] = k

Get(d, k) ==
  IF Has(d, k) THEN d[CHOOSE i \in 1..Len(d) : d[i][1] = k][2] ELSE Nil

Range(s) == {s[i] : i \in 1..Len(s)}

\* ------------------------------------------------------------------------
\* Resource.plan  (cook/core/resource.py)
\* ------------------------------------------------------------------------
RECURSIVE DetectFrom(_, _, _)
DetectFrom(actual, desired, i) ==
  IF i > Len(desired) THEN <<>>
  ELSE LET key  == desired[i][1]
           dv   == desired[i][2]
           av   == Get(actual, key)
           rest == DetectFrom(actual, desired, i + 1)
       IN  IF key = "exists" THEN rest
           ELSE IF dv = Nil /\ av = Nil THEN rest
           ELSE IF av # dv THEN <<<<key, av, dv>>>> \o rest
           ELSE rest

DetectChanges(actual, desired) == DetectFrom(actual, desired, 1)

\* A create plan that also lists exists
RECURSIVE CreateChangesAll(_, _)
CreateChangesAll(desired, i) ==
  IF i > Len(desired) THEN <<>>
  ELSE <<<<desired[i][1], Nil, desired[i][2]>>>> \o CreateChangesAll(desired, i + 1)

RECURSIVE CreateChanges(_, _)
CreateChanges(desired, i) ==
  IF i > Len(desired) THEN <<>>
  ELSE IF desired[i][1] = "exists" THEN CreateChanges(desired, i + 1)
  ELSE <<<<desired[i][1], Nil, desired[i][2]>>>> \o CreateChanges(desired, i + 1)

RECURSIVE DeleteChanges(_, _)
DeleteChanges(actual, i) ==
  IF i > Len(actual) THEN <<>>
  ELSE IF actual[i][1] = "exists" THEN DeleteChanges(actual, i + 1)
  ELSE <<<<actual[i][1], actual[i][2], Nil>>>> \o DeleteChanges(actual, i + 1)

MkPlan(action, changes) == [action |-> action, changes |-> changes]

ResourcePlan(actual, desired) ==
  LET exists       == IF Has(actual, "exists") THEN Get(actual, "exists") = "true" ELSE FALSE
      should_exist == IF Has(desired, "exists") THEN Get(desired, "exists") = "true" ELSE TRUE
  IN  IF ~exists /\ should_exist THEN MkPlan("create", CreateChanges(desired, 1))
      ELSE IF exists /\ ~should_exist THEN MkPlan("delete", DeleteChanges(actual, 1))
      ELSE IF ~exists /\ ~should_exist THEN MkPlan("none", <<>>)
      ELSE LET changes == DetectChanges(actual, desired)
           IN  IF Len(changes) > 0 THEN MkPlan("update", changes)
               ELSE MkPlan("none", <<>>)

\* Every plan counts as one with changes
has_changes_always(plan) == TRUE

has_changes(plan) == plan.action # "none" /\ Len(plan.changes) > 0

\* ------------------------------------------------------------------------
\* The target host as seen through the transport (cook/transport/local.py)
\* ------------------------------------------------------------------------
Paths == {"/f", "/g"}

RepoNames == {"r"}

PkgNames == {"p", "q"}

\* Repository._check_update: the freshness markers of the package cache
AptStamp == "/var/lib/apt/periodic/update-success-stamp"

PacmanDb == "/var/lib/pacman/sync/core.db"

\* Repository._check_repository: where each package manager keeps a repository
PacmanConf == "/etc/pacman.conf"

AptSource(filename) == "/etc/apt/sources.list.d/" \o filename

DnfRepo(name) == "/etc/yum.repos.d/" \o name \o ".repo"

SysPaths ==
  {AptStamp, PacmanDb, PacmanConf}
    \cup {AptSource(n \o ".list") : n \in RepoNames} \cup {DnfRepo(n) : n \in RepoNames}

AllPaths == Paths \cup SysPaths

AbsentFile == [type |-> "absent", content |-> Nil, mode |-> Nil, owner |-> Nil, group |-> Nil]

NewFile(content) ==
  [type |-> "file", content |-> content, mode |-> "644", owner |-> "root", group |-> "root"]

NewDir == [type |-> "directory", content |-> Nil, mode |-> "755", owner |-> "root", group |-> "root"]

\* The version the package source of the host offers
Candidate == "1.0"

\* LocalTransport.file_exists
file_exists(t, path) == t.files[path].type # "absent"

\* LocalTransport.write_file raises when the path cannot be opened for
\* writing (Path.write_bytes on a directory).
WriteRaises(t, path) == t.files[path].type = "directory"

\* The arguments of a command from position i on
Args(op, i) == {op[k] : k \in i..Len(op)}

\* Commands a script hands to Exec (command, unless, only_if)
ShellExit(cmd, t) ==
  CASE cmd = "false" -> 1
    [] \E p \in Paths : cmd = "test -e " \o p ->
         IF \E p \in Paths : cmd = "test -e " \o p /\ file_exists(t, p) THEN 0 ELSE 1
    [] \E p \in Paths : cmd = "touch " \o p ->
         IF \E p \in Paths : cmd = "touch " \o p /\ p \in t.broken THEN 1 ELSE 0
    [] OTHER -> 0

ShellEffect(cmd, t) ==
  IF \E p \in Paths : cmd = "touch " \o p
  THEN LET p == CHOOSE q \in Paths : cmd = "touch " \o q
       IN  IF t.files[p].type = "absent" THEN [t EXCEPT !.files[p] = NewFile("")] ELSE t
  ELSE t

\* Exit code of a command run through run_shell / run_command.
ExitCode(op, t) ==
  LET prog == op[2] IN
  CASE prog = "mkdir"   ->
         IF op[4] \in t.broken \/ (op[4] \in AllPaths /\ t.files[op[4]].type = "file")
         THEN 1 ELSE 0
    [] prog = "touch"   -> IF op[3] \in t.broken THEN 1 ELSE 0
    [] prog = "rm"      -> IF op[4] \in t.broken THEN 1 ELSE 0
    [] prog \in {"chmod", "chown", "chgrp"} ->
         IF op[4] \in t.broken \/ t.files[op[4]].type = "absent" THEN 1 ELSE 0
    [] prog = "stat"    -> IF t.files[op[3]].type = "absent" THEN 1 ELSE 0
    [] prog = "age"     -> IF "stat" \in t.broken THEN 1 ELSE 0
    [] prog = "sh"      -> ShellExit(op[3], t)
    [] prog = "systemctl" ->
         CASE op[3] = "is-active"  -> IF op[4] \in t.running THEN 0 ELSE 3
           [] op[3] = "is-enabled" -> IF op[4] \in t.enabled THEN 0 ELSE 1
           [] op[3] \in {"start", "restart"} -> IF op[4] \in t.broken THEN 1 ELSE 0
           [] op[3] = "reload" ->
                IF op[4] \in t.broken \/ op[4] \notin t.running THEN 1 ELSE 0
           [] OTHER -> 0
    [] prog = "launchctl" ->
         CASE op[3] = "list"  -> IF op[4] \in t.running THEN 0 ELSE 1
           [] op[3] = "start" -> IF op[4] \in t.broken THEN 1 ELSE 0
           [] OTHER -> 0
    [] prog \in {"dpkg-query", "rpm"} -> IF t.pkgs[op[4]] # Nil THEN 0 ELSE 1
    [] prog \in {"apt-get", "dnf", "pacman", "brew"} ->
         CASE op[3] \in {"-Q", "list"} -> IF t.pkgs[op[4]] # Nil THEN 0 ELSE 1
           [] op[3] \in {"install", "-S"} ->
                IF Args(op, 4) \cap t.broken # {} THEN 1 ELSE 0
           [] op[3] \in {"-R", "uninstall"} ->
                IF \E n \in Args(op, 4) : t.pkgs[n] = Nil THEN 1 ELSE 0
           [] op[3] \in {"update", "-Sy"} -> IF "mirror" \in t.broken THEN 1 ELSE 0
           [] op[3] = "check-update" -> IF "mirror" \in t.broken THEN 1 ELSE 100
           [] op[3] = "tap" /\ Len(op) = 4 -> IF op[4] \in t.broken THEN 1 ELSE 0
           [] OTHER -> 0
    [] OTHER -> 0

\* What a package-manager command does to the host.
PmEffect(op, t) ==
  CASE op[3] \in {"install", "-S"} ->
         [t EXCEPT !.pkgs = [n \in PkgNames |-> IF n \in Args(op, 4) THEN Candidate ELSE @[n]]]
    [] op[3] \in {"remove", "-R", "uninstall"} ->
         [t EXCEPT !.pkgs = [n \in PkgNames |-> IF n \in Args(op, 4) THEN Nil ELSE @[n]]]
    [] op[3] \in {"update", "-Sy"} ->
         IF ~t.stamps THEN t
         ELSE LET marker == IF op[2] = "pacman" THEN PacmanDb ELSE AptStamp
              IN  IF op[2] \in {"apt-get", "pacman"}
                  THEN [t EXCEPT !.age = 0,
                                 !.files[marker] = IF @.type = "absent" THEN NewFile("") ELSE @]
                  ELSE t
    [] op[3] = "tap" /\ Len(op) = 4 -> [t EXCEPT !.taps = @ \cup {op[4]}]
    [] op[3] = "untap" -> [t EXCEPT !.taps = @ \ {op[4]}]
    [] OTHER -> t

\* What one transport call does to the host.
Effect(op, t) ==
  LET kind == op[1] IN
  IF kind = "write_file" THEN
       IF WriteRaises(t, op[2]) THEN t
       ELSE IF t.files[op[2]].type = "absent"
            THEN [t EXCEPT !.files[op[2]] = NewFile(op[3])]
            ELSE [t EXCEPT !.files[op[2]].content = op[3]]
  ELSE IF kind \in {"file_exists", "read_file"} THEN t
  ELSE IF ExitCode(op, t) # 0 THEN t
  ELSE LET prog == op[2] IN
       CASE prog = "mkdir" ->
              IF op[4] \in AllPaths /\ t.files[op[4]].type = "absent"
              THEN [t EXCEPT !.files[op[4]] = NewDir] ELSE t
         [] prog = "touch" ->
              IF t.files[op[3]].type = "absent"
              THEN [t EXCEPT !.files[op[3]] = NewFile("")] ELSE t
         [] prog = "rm"    -> [t EXCEPT !.files[op[4]] = AbsentFile]
         [] prog = "chmod" -> [t EXCEPT !.files[op[4]].mode = op[3]]
         [] prog = "chown" ->
              IF Len(op) = 5
              THEN [t EXCEPT !.files[op[4]].owner = op[3], !.files[op[4]].group = op[5]]
              ELSE [t EXCEPT !.files[op[4]].owner = op[3]]
         [] prog = "chgrp" -> [t EXCEPT !.files[op[4]].group = op[3]]
         [] prog = "sh"    -> ShellEffect(op[3], t)
         [] prog = "echo"  ->
              IF t.files[op[4]].type = "absent"
              THEN [t EXCEPT !.files[op[4]] = NewFile(op[3] \o "\n")]
              ELSE [t EXCEPT !.files[op[4]].content = @ \o op[3] \o "\n"]
         [] prog = "systemctl" ->
              CASE op[3] \in {"start", "restart"} -> [t EXCEPT !.running = @ \cup {op[4]}]
                [] op[3] = "stop"    -> [t EXCEPT !.running = @ \ {op[4]}]
                [] op[3] = "enable"  -> [t EXCEPT !.enabled = @ \cup {op[4]}]
                [] op[3] = "disable" -> [t EXCEPT !.enabled = @ \ {op[4]}]
                [] OTHER -> t
         [] prog = "launchctl" ->
              CASE op[3] = "start" -> [t EXCEPT !.running = @ \cup {op[4]}]
                [] op[3] = "stop"  -> [t EXCEPT !.running = @ \ {op[4]}]
                [] OTHER -> t
         [] prog \in {"apt-get", "dnf", "pacman", "brew"} -> PmEffect(op, t)
         [] OTHER -> t

\* An execution context threads the host state and the trace of calls.
Do(cx, op) == [cx EXCEPT !.t = Effect(op, cx.t), !.trace = Append(@, op)]

Note(cx, ev) == [cx EXCEPT !.trace = Append(@, ev)]

RECURSIVE DoAll(_, _)
DoAll(cx, ops) == IF ops = <<>> THEN cx ELSE DoAll(Do(cx, Head(ops)), Tail(ops))

\* The outcome of a step of an apply: the context after it and whether it
\* returned (ok) or raised.  Checked is a command that raises on a non-zero exit.
Checked(cx, op) == [cx |-> Do(cx, op), ok |-> ExitCode(op, cx.t) = 0]

Skip(cx) == [cx |-> cx, ok |-> TRUE]

Raise(cx) == [cx |-> cx, ok |-> FALSE]

\* ------------------------------------------------------------------------
\* Resource declarations (constructor arguments)
\* ------------------------------------------------------------------------
D0 ==
  [kind |-> "mock", name |-> "", value |-> Nil,
   content |-> Nil, source |-> Nil, ensure |-> Nil, mode |-> Nil,
   owner |-> Nil, group |-> Nil,
   running |-> Nil, enabled |-> Nil, reload_on |-> <<>>, restart_on |-> <<>>,
   packages |-> <<>>, version |-> Nil,
   command |-> Nil, creates |-> Nil, unless |-> Nil, only_if |-> Nil, dry_run |-> FALSE,
   safe_mode |-> TRUE, security_level |-> "strict", allow_pipes |-> TRUE,
   allow_redirects |-> TRUE,
   action |-> Nil, repo |-> Nil, tap |-> Nil, key_url |-> Nil, filename |-> Nil]

\* tests/unit/test_executor.py: a resource that does not self-register
MockResource(name, value) == [D0 EXCEPT !.kind = "mock", !.name = name, !.value = value]

File(path, content, ensure, mode) ==
  [D0 EXCEPT !.kind = "file", !.name = path, !.content = content,
             !.ensure = ensure, !.mode = mode]

Service(name, running, enabled, reload_on, restart_on) ==
  [D0 EXCEPT !.kind = "svc", !.name = name, !.running = running, !.enabled = enabled,
             !.reload_on = reload_on, !.restart_on = restart_on]

\* packages = <<>> stands for the packages argument left out
Package(name, version, ensure, packages) ==
  [D0 EXCEPT !.kind = "pkg", !.name = name, !.version = version, !.ensure = ensure,
             !.packages = packages]

Exec(name, command, creates, unless, only_if, dry_run) ==
  [D0 EXCEPT !.kind = "exec", !.name = name, !.command = command, !.creates = creates,
             !.unless = unless, !.only_if = only_if, !.dry_run = dry_run]

\* Exec with its security options: safe_mode, security_level, allow_pipes
\* and allow_redirects
ExecWith(name, command, unless, only_if, safe_mode, security_level, pipes, redirects) ==
  [Exec(name, command, Nil, unless, only_if, FALSE) EXCEPT
     !.safe_mode = safe_mode, !.security_level = security_level,
     !.allow_pipes = pipes, !.allow_redirects = redirects]

Repository(name, action, repo, tap, ensure) ==
  [D0 EXCEPT !.kind = "repository", !.name = name, !.action = action, !.repo = repo,
             !.tap = tap, !.ensure = ensure, !.filename = name \o ".list"]

resource_type(d) == d.kind

\* Resource.id
Id(d) == resource_type(d) \o ":" \o d.name

\* Constructors that end with get_executor().add(self)
SelfRegisters(d) == d.kind # "mock"

Parent(path) == "/"

\* ------------------------------------------------------------------------
\* MockResource
\* ------------------------------------------------------------------------
MockCheck(d, t) == [raised |-> FALSE, st |-> <<<<"exists", "false">>>>, ops |-> <<>>]

MockDesired(d) == [raised |-> FALSE, st |-> <<<<"exists", "true">>, <<"value", d.value>>>>]

\* ------------------------------------------------------------------------
\* File  (cook/resources/file.py)
\* ------------------------------------------------------------------------
SizeOf(f) == IF f.type = "file" THEN (IF f.content = "" THEN "0" ELSE "1") ELSE "4096"

FileCheck(d, t) ==
  LET p == d.name
      f == t.files[p]
  IN  IF ~file_exists(t, p)
      THEN [raised |-> FALSE,
            st |-> << <<"exists", "false">>, <<"type", Nil>>, <<"content", Nil>>,
                      <<"mode", Nil>>, <<"owner", Nil>>, <<"group", Nil>>, <<"size", Nil>> >>,
            ops |-> << <<"file_exists", p>> >>]
      ELSE [raised |-> FALSE,
            st |-> << <<"exists", "true">>, <<"type", f.type>>,
                      <<"content", IF f.type = "file" THEN f.content ELSE Nil>>,
                      <<"mode", f.mode>>, <<"owner", f.owner>>, <<"group", f.group>>,
                      <<"size", SizeOf(f)>> >>,
            ops |-> << <<"file_exists", p>>, <<"run_shell", "stat", p>> >>
                    \o (IF f.type = "file" THEN << <<"read_file", p>> >> ELSE <<>>)]

Opt(key, v) == IF v # Nil THEN << <<key, v>> >> ELSE <<>>

\* source = "missing" stands for a source path that does not exist locally;
\* any other source value is the text of the source file.
FileDesired(d) ==
  IF d.ensure = "absent"
  THEN [raised |-> FALSE, st |-> << <<"exists", "false">>, <<"type", Nil>> >>]
  ELSE IF d.content = Nil /\ d.source = "missing"
  THEN [raised |-> TRUE, st |-> <<>>]
  ELSE [raised |-> FALSE,
        st |-> << <<"exists", "true">>,
                  <<"type", IF d.ensure \in {"file", "directory"} THEN d.ensure ELSE Nil>>,
                  <<"content", IF d.content # Nil THEN d.content ELSE d.source>> >>
               \o Opt("mode", d.mode) \o Opt("owner", d.owner) \o Opt("group", d.group)]

FileSetMetadata(d, cx) ==
  LET p   == d.name
      cx1 == IF d.owner # Nil /\ d.group # Nil
               THEN Do(cx, <<"run_command", "chown", d.owner, p, d.group>>)
             ELSE IF d.owner # Nil THEN Do(cx, <<"run_command", "chown", d.owner, p>>)
             ELSE IF d.group # Nil THEN Do(cx, <<"run_command", "chgrp", d.group, p>>)
             ELSE cx
  IN  IF d.mode # Nil THEN Do(cx1, <<"run_command", "chmod", d.mode, p>>) ELSE cx1

FileCreate(d, obj, cx) ==
  LET p == d.name IN
  IF d.ensure = "directory"
  THEN [cx |-> FileSetMetadata(d, Do(cx, <<"run_command", "mkdir", "-p", p>>)), ok |-> TRUE]
  ELSE IF d.ensure = "file"
  THEN LET cx1 == Do(cx, <<"run_command", "mkdir", "-p", Parent(p)>>)
           c   == Get(obj.desired, "content")
       IN  IF c # Nil
           THEN IF WriteRaises(cx1.t, p)
                THEN [cx |-> Do(cx1, <<"write_file", p, c>>), ok |-> FALSE]
                ELSE [cx |-> FileSetMetadata(d, Do(cx1, <<"write_file", p, c>>)), ok |-> TRUE]
           ELSE [cx |-> FileSetMetadata(d, Do(cx1, <<"run_command", "touch", p>>)), ok |-> TRUE]
  ELSE [cx |-> FileSetMetadata(d, cx), ok |-> TRUE]

RECURSIVE FileUpdate(_, _, _, _)
FileUpdate(d, changes, i, cx) ==
  IF i > Len(changes) THEN [cx |-> cx, ok |-> TRUE]
  ELSE LET field == changes[i][1]
           to    == changes[i][3]
           p     == d.name
       IN  IF field = "content"
           THEN IF to = Nil THEN [cx |-> cx, ok |-> FALSE]   \* None has no encode()
                ELSE IF WriteRaises(cx.t, p)
                THEN [cx |-> Do(cx, <<"write_file", p, to>>), ok |-> FALSE]
                ELSE FileUpdate(d, changes, i + 1, Do(cx, <<"write_file", p, to>>))
           ELSE IF field = "mode"
           THEN FileUpdate(d, changes, i + 1, Do(cx, <<"run_command", "chmod", to, p>>))
           ELSE IF field \in {"owner", "group"}
           THEN FileUpdate(d, changes, i + 1, FileSetMetadata(d, cx))
           ELSE FileUpdate(d, changes, i + 1, cx)

FileDelete(d, cx) == [cx |-> Do(cx, <<"run_command", "rm", "-rf", d.name>>), ok |-> TRUE]

FileApply(d, obj, plan, cx) ==
  IF plan.action = "delete" THEN FileDelete(d, cx)
  ELSE IF plan.action = "create" THEN FileCreate(d, obj, cx)
  ELSE IF plan.action = "update" THEN FileUpdate(d, plan.changes, 1, cx)
  ELSE [cx |-> cx, ok |-> TRUE]

\* ------------------------------------------------------------------------
\* Service  (cook/resources/service.py)
\* ------------------------------------------------------------------------
ServiceCheck(d, t, pf) ==
  LET n == d.name
      isActive  == <<"run_command", "systemctl", "is-active", n>>
      isEnabled == <<"run_command", "systemctl", "is-enabled", n>>
      list      == <<"run_command", "launchctl", "list", n>>
      running == IF pf.system = "Linux" THEN ExitCode(isActive, t) = 0
                 ELSE IF pf.system = "Darwin" THEN ExitCode(list, t) = 0
                 ELSE FALSE
      enabled == IF pf.system = "Linux" THEN ExitCode(isEnabled, t) = 0
                 ELSE IF pf.system = "Darwin" THEN TRUE
                 ELSE FALSE
  IN  [raised |-> FALSE,
       st |-> << <<"exists", "true">>, <<"running", B(running)>>, <<"enabled", B(enabled)>> >>,
       ops |-> IF pf.system = "Linux" THEN <<isActive, isEnabled>>
               ELSE IF pf.system = "Darwin" THEN <<list>>
               ELSE <<>>]

\* A desired state in which an unspecified running counts as running
ServiceDesiredRunning(d) ==
  [raised |-> FALSE,
   st |-> << <<"exists", "true">>, <<"running", IF d.running = Nil THEN "true" ELSE d.running>> >>
          \o Opt("enabled", d.enabled)]

ServiceDesired(d) ==
  [raised |-> FALSE,
   st |-> << <<"exists", "true">> >> \o Opt("running", d.running) \o Opt("enabled", d.enabled)]

ServiceStart(d, cx, pf) ==
  IF pf.system = "Linux" THEN Checked(cx, <<"run_command", "systemctl", "start", d.name>>)
  ELSE IF pf.system = "Darwin" THEN Checked(cx, <<"run_command", "launchctl", "start", d.name>>)
  ELSE Skip(cx)

ServiceStop(d, cx, pf) ==
  IF pf.system = "Linux" THEN Checked(cx, <<"run_command", "systemctl", "stop", d.name>>)
  ELSE IF pf.system = "Darwin" THEN Checked(cx, <<"run_command", "launchctl", "stop", d.name>>)
  ELSE Skip(cx)

ServiceEnable(d, cx, pf) ==
  IF pf.system = "Linux" THEN Checked(cx, <<"run_command", "systemctl", "enable", d.name>>)
  ELSE Skip(cx)

ServiceDisable(d, cx, pf) ==
  IF pf.system = "Linux" THEN Checked(cx, <<"run_command", "systemctl", "disable", d.name>>)
  ELSE Skip(cx)

RECURSIVE ServiceApply(_, _, _, _, _)
ServiceApply(d, changes, i, cx, pf) ==
  IF i > Len(changes) THEN [cx |-> cx, ok |-> TRUE]
  ELSE LET field == changes[i][1]
           to    == changes[i][3]
           r == IF field = "running"
                  THEN (IF to = "true" THEN ServiceStart(d, cx, pf) ELSE ServiceStop(d, cx, pf))
                ELSE IF field = "enabled"
                  THEN (IF to = "true" THEN ServiceEnable(d, cx, pf) ELSE ServiceDisable(d, cx, pf))
                ELSE Skip(cx)
       IN  IF r.ok THEN ServiceApply(d, changes, i + 1, r.cx, pf) ELSE r

ServiceReload(d, cx, pf) ==
  IF pf.system = "Linux" THEN Checked(cx, <<"run_command", "systemctl", "reload", d.name>>)
  ELSE Skip(cx)

ServiceRestart(d, cx, pf) ==
  IF pf.system = "Linux" THEN Checked(cx, <<"run_command", "systemctl", "restart", d.name>>)
  ELSE IF pf.system = "Darwin"
  THEN Checked(Do(cx, <<"run_command", "launchctl", "stop", d.name>>),
               <<"run_command", "launchctl", "start", d.name>>)
  ELSE Skip(cx)

should_reload(d, changed) == \E i \in 1..Len(d.reload_on) : d.reload_on[i] \in Range(changed)

should_restart(d, changed) == \E i \in 1..Len(d.restart_on) : d.restart_on[i] \in Range(changed)

\* ------------------------------------------------------------------------
\* Package  (cook/resources/pkg.py)
\* ------------------------------------------------------------------------
\* _get_package_manager of Package and of Repository; Nil stands for the
\* ValueError raised on an unsupported platform
PackageManager(pf) ==
  IF pf.distro \in {"ubuntu", "debian"} THEN "apt"
  ELSE IF pf.distro \in {"fedora", "rhel", "centos"} THEN "dnf"
  ELSE IF pf.distro = "arch" THEN "pacman"
  ELSE IF pf.system = "Darwin" THEN "brew"
  ELSE Nil

PkgList(d) == IF d.packages # <<>> THEN d.packages ELSE <<d.name>>

\* A query that installs what it asks about
PkgQueryInstalling(pm, pkg) == <<"run_command", "dnf", "install", pkg>>

\* Package._check_package: the query command of each package manager
PkgQuery(pm, pkg) ==
  CASE pm = "apt"    -> <<"run_command", "dpkg-query", "-W", pkg>>
    [] pm = "dnf"    -> <<"run_command", "rpm", "-q", pkg>>
    [] pm = "pacman" -> <<"run_command", "pacman", "-Q", pkg>>
    [] pm = "brew"   -> <<"run_command", "brew", "list", pkg>>

\* The "packages" entry of the observed state, written out as text
RECURSIVE PkgStates(_, _, _, _)
PkgStates(pm, pkgs, t, i) ==
  IF i > Len(pkgs) THEN ""
  ELSE pkgs[i] \o "="
         \o (IF ExitCode(PkgQuery(pm, pkgs[i]), t) = 0 THEN t.pkgs[pkgs[i]] ELSE Nil)
         \o ";" \o PkgStates(pm, pkgs, t, i + 1)

PackageCheck(d, t, pf) ==
  LET pm   == PackageManager(pf)
      pkgs == PkgList(d)
  IN  IF pm = Nil THEN [raised |-> TRUE, st |-> <<>>, ops |-> <<>>]
      ELSE [raised |-> FALSE,
            st |-> << <<"exists",
                        B(\A i \in 1..Len(pkgs) : ExitCode(PkgQuery(pm, pkgs[i]), t) = 0)>>,
                      <<"packages", PkgStates(pm, pkgs, t, 1)>> >>,
            ops |-> [i \in 1..Len(pkgs) |-> PkgQuery(pm, pkgs[i])]]

PackageDesired(d) ==
  [raised |-> FALSE,
   st |-> << <<"exists", B(d.ensure \in {"present", "latest"})>>, <<"version", d.version>> >>]

PackageInstall(d, cx, pm) ==
  CASE pm = "apt"    -> Checked(cx, <<"run_shell", "apt-get", "install">> \o PkgList(d))
    [] pm = "dnf"    -> Checked(cx, <<"run_command", "dnf", "install">> \o PkgList(d))
    [] pm = "pacman" -> Checked(cx, <<"run_command", "pacman", "-S">> \o PkgList(d))
    [] pm = "brew"   -> Checked(cx, <<"run_command", "brew", "install">> \o PkgList(d))

PackageRemove(d, cx, pm) ==
  CASE pm = "apt"    -> Checked(cx, <<"run_shell", "apt-get", "remove">> \o PkgList(d))
    [] pm = "dnf"    -> Checked(cx, <<"run_command", "dnf", "remove">> \o PkgList(d))
    [] pm = "pacman" -> Checked(cx, <<"run_command", "pacman", "-R">> \o PkgList(d))
    [] pm = "brew"   -> Checked(cx, <<"run_command", "brew", "uninstall">> \o PkgList(d))

PackageApply(d, plan, cx, pf) ==
  LET pm == PackageManager(pf) IN
  IF pm = Nil THEN Raise(cx)
  ELSE IF plan.action = "create" THEN PackageInstall(d, cx, pm)
  ELSE IF plan.action = "delete" THEN PackageRemove(d, cx, pm)
  ELSE IF plan.action = "update" THEN PackageInstall(d, cx, pm)
  ELSE Skip(cx)

\* ------------------------------------------------------------------------
\* Exec  (cook/resources/exec.py)
\* ------------------------------------------------------------------------
\* Exec._hash_command, for declarations without cwd and environment
HashCommand(d) == "sha256(" \o d.command \o ":None:{})"

Sh(cmd) == <<"run_shell", "sh", cmd>>

\* A check that leaves the only_if guard out of the verdict
ExecShouldRunNoOnlyIf(byCreates, byUnless, byOnlyIf) == ~byCreates /\ ~byUnless

\* Exec.check: should_run stays True unless a guard has set it to False
ExecShouldRun(byCreates, byUnless, byOnlyIf) == ~byCreates /\ ~byUnless /\ ~byOnlyIf

ExecCheck(d, t) ==
  LET byCreates == d.creates # Nil /\ file_exists(t, d.creates)
      runUnless == ~byCreates /\ d.unless # Nil /\ ~d.dry_run
      byUnless  == runUnless /\ ExitCode(Sh(d.unless), t) = 0
      t1        == IF runUnless THEN Effect(Sh(d.unless), t) ELSE t
      runOnlyIf == ~byCreates /\ ~byUnless /\ d.only_if # Nil /\ ~d.dry_run
      byOnlyIf  == runOnlyIf /\ ExitCode(Sh(d.only_if), t1) # 0
  IN  [raised |-> FALSE,
       st |-> << <<"exists", "true">>,
                 <<"should_run", B(ExecShouldRun(byCreates, byUnless, byOnlyIf))>>,
                 <<"command_hash", HashCommand(d)>>,
                 <<"dry_run", B(d.dry_run)>>,
                 <<"warnings", "[]">> >>,
       ops |-> (IF d.creates # Nil THEN << <<"file_exists", d.creates>> >> ELSE <<>>)
               \o (IF runUnless THEN <<Sh(d.unless)>> ELSE <<>>)
               \o (IF runOnlyIf THEN <<Sh(d.only_if)>> ELSE <<>>)]

ExecDesired(d) ==
  [raised |-> FALSE,
   st |-> << <<"exists", "true">>, <<"should_run", "false">>,
             <<"command_hash", HashCommand(d)>>, <<"dry_run", B(d.dry_run)>>,
             <<"warnings", "[]">> >>]

\* An apply that takes no notice of dry_run
ExecApplyRunning(d, obj, cx) ==
  IF Has(obj.actual, "should_run") /\ Get(obj.actual, "should_run") # "true" THEN Skip(cx)
  ELSE Checked(cx, Sh(d.command))

\* Exec.apply
ExecApply(d, obj, cx) ==
  IF Has(obj.actual, "should_run") /\ Get(obj.actual, "should_run") # "true" THEN Skip(cx)
  ELSE IF d.dry_run THEN Skip(cx)
  ELSE Checked(cx, Sh(d.command))

\* ------------------------------------------------------------------------
\* Repository  (cook/resources/repository.py), declarations without ppa
\* and key_id, actions add and update
\* ------------------------------------------------------------------------
FreshSeconds == 3600

RepoLines == {"deb u"}

\* Text that can stand before and after a searched line in a file of the host
Prefixes == {"", "\n", "[core]\n", "[core]\n\n"} \cup {"# " \o n \o "\n" : n \in RepoNames}

Suffixes == {"", "\n"} \cup {"\n" \o l \o "\n\n" : l \in RepoLines}

\* Python's "needle in content"
Contains(content, needle) ==
  \E pre \in Prefixes, suf \in Suffixes : content = pre \o needle \o suf

AgeOf(path) == <<"run_shell", "age", path>>

\* A cache that counts as stale from the threshold on
NeedsUpdateFrom(age_seconds) == age_seconds >= FreshSeconds

\* needs_update = age_seconds > 3600
NeedsUpdate(age_seconds) == age_seconds > FreshSeconds

RepositoryCheckUpdate(pm, t) ==
  LET marker == IF pm = "apt" THEN AptStamp ELSE PacmanDb IN
  IF pm \in {"apt", "pacman"}
  THEN IF file_exists(t, marker) /\ ExitCode(AgeOf(marker), t) = 0
       THEN [raised |-> FALSE,
             st |-> << <<"exists", "true">>, <<"needs_update", B(NeedsUpdate(t.age))>>,
                       <<"cache_age_seconds", ToString(t.age)>> >>,
             ops |-> << <<"file_exists", marker>>, AgeOf(marker) >>]
       ELSE [raised |-> FALSE,
             st |-> << <<"exists", "true">>, <<"needs_update", "true">> >>,
             ops |-> << <<"file_exists", marker>> >>]
  ELSE [raised |-> FALSE,
        st |-> << <<"exists", "true">>, <<"needs_update", "true">> >>,
        ops |-> <<>>]

RepositoryCheckRepository(d, pm, t) ==
  CASE pm = "apt" ->
         LET f == AptSource(d.filename) IN
         IF file_exists(t, f) /\ d.repo # Nil
         THEN IF t.files[f].type # "file"
              THEN [raised |-> TRUE, st |-> <<>>,
                    ops |-> << <<"file_exists", f>>, <<"read_file", f>> >>]
              ELSE [raised |-> FALSE,
                    st |-> << <<"exists", B(Contains(t.files[f].content, d.repo))>>,
                              <<"source_file", f>>, <<"repo_line", d.repo>> >>,
                    ops |-> << <<"file_exists", f>>, <<"read_file", f>> >>]
         ELSE [raised |-> FALSE,
               st |-> << <<"exists", B(file_exists(t, f))>>, <<"source_file", f>> >>,
               ops |-> << <<"file_exists", f>> >>]
    [] pm = "dnf" ->
         [raised |-> FALSE,
          st |-> << <<"exists", B(file_exists(t, DnfRepo(d.name)))>>,
                    <<"repo_file", DnfRepo(d.name)>> >>,
          ops |-> << <<"file_exists", DnfRepo(d.name)>> >>]
    [] pm = "pacman" ->
         IF file_exists(t, PacmanConf)
         THEN IF t.files[PacmanConf].type # "file"
              THEN [raised |-> TRUE, st |-> <<>>,
                    ops |-> << <<"file_exists", PacmanConf>>, <<"read_file", PacmanConf>> >>]
              ELSE [raised |-> FALSE,
                    st |-> << <<"exists",
                                B(Contains(t.files[PacmanConf].content, "[" \o d.name \o "]"))>> >>,
                    ops |-> << <<"file_exists", PacmanConf>>, <<"read_file", PacmanConf>> >>]
         ELSE [raised |-> FALSE, st |-> << <<"exists", "false">> >>,
               ops |-> << <<"file_exists", PacmanConf>> >>]
    [] pm = "brew" ->
         IF d.tap # Nil
         THEN [raised |-> FALSE,
               st |-> << <<"exists", B(d.tap \in t.taps)>>, <<"tap", d.tap>> >>,
               ops |-> << <<"run_command", "brew", "tap">> >>]
         ELSE [raised |-> FALSE, st |-> << <<"exists", "false">> >>, ops |-> <<>>]

RepositoryCheck(d, t, pf) ==
  LET pm == PackageManager(pf) IN
  IF pm = Nil THEN [raised |-> TRUE, st |-> <<>>, ops |-> <<>>]
  ELSE IF d.action = "update" THEN RepositoryCheckUpdate(pm, t)
  ELSE RepositoryCheckRepository(d, pm, t)

RepositoryDesired(d) ==
  IF d.action = "update"
  THEN [raised |-> FALSE, st |-> << <<"exists", "true">>, <<"needs_update", "false">> >>]
  ELSE [raised |-> FALSE,
        st |-> << <<"exists", B(d.ensure = "present")>>, <<"repo_line", d.repo>>,
                  <<"has_key", B(d.key_url # Nil)>> >>]

RepositoryDoUpdate(cx, pm) ==
  CASE pm = "apt"    -> Checked(cx, <<"run_shell", "apt-get", "update">>)
    [] pm = "dnf"    ->
         LET op == <<"run_command", "dnf", "check-update">>
         IN  [cx |-> Do(cx, op), ok |-> ExitCode(op, cx.t) \in {0, 100}]
    [] pm = "pacman" -> Checked(cx, <<"run_command", "pacman", "-Sy">>)
    [] pm = "brew"   -> Checked(cx, <<"run_command", "brew", "update">>)

\* Repository._generate_dnf_repo_file
DnfRepoFile(d) ==
  "[" \o d.name \o "]\nname=" \o d.name \o "\n"
    \o (IF d.repo # Nil THEN "baseurl=" \o d.repo \o "\n" ELSE "")
    \o (IF d.key_url # Nil THEN "gpgkey=" \o d.key_url \o "\ngpgcheck=1\n" ELSE "gpgcheck=0\n")
    \o "enabled=1\n"

\* A write_file that raises when the path cannot be written
Written(cx, path, content) ==
  [cx |-> Do(cx, <<"write_file", path, content>>), ok |-> ~WriteRaises(cx.t, path)]

RepositoryAdd(d, cx, pm) ==
  CASE pm = "apt" ->
         LET k == IF d.key_url # Nil
                  THEN Checked(cx, <<"run_shell", "curl", d.key_url, d.name>>)
                  ELSE Skip(cx)
         IN  IF ~k.ok THEN k
             ELSE IF d.repo = Nil THEN Raise(k.cx)   \* "in" on None is a TypeError
             ELSE Written(k.cx, AptSource(d.filename),
                          "# " \o d.name \o "\n" \o d.repo \o "\n")
    [] pm = "dnf" -> Written(cx, DnfRepo(d.name), DnfRepoFile(d))
    [] pm = "pacman" ->
         IF d.repo # Nil
         THEN Checked(cx, <<"run_shell", "echo", "\n[" \o d.name \o "]\n" \o d.repo \o "\n",
                            PacmanConf>>)
         ELSE Skip(cx)
    [] pm = "brew" ->
         IF d.tap # Nil THEN Checked(cx, <<"run_command", "brew", "tap", d.tap>>) ELSE Skip(cx)

RepositoryRemove(d, cx, pm) ==
  CASE pm = "apt"  -> Skip(Do(cx, <<"run_command", "rm", "-f", AptSource(d.filename)>>))
    [] pm = "dnf"  -> Skip(Do(cx, <<"run_command", "rm", "-f", DnfRepo(d.name)>>))
    [] pm = "brew" ->
         IF d.tap # Nil THEN Skip(Do(cx, <<"run_command", "brew", "untap", d.tap>>)) ELSE Skip(cx)
    [] OTHER -> Skip(cx)

RepositoryApply(d, plan, cx, pf) ==
  LET pm == PackageManager(pf) IN
  IF pm = Nil THEN Raise(cx)
  ELSE IF d.action = "update" THEN RepositoryDoUpdate(cx, pm)
  ELSE IF plan.action = "create" THEN RepositoryAdd(d, cx, pm)
  ELSE IF plan.action = "delete" THEN RepositoryRemove(d, cx, pm)
  ELSE Skip(cx)

\* ------------------------------------------------------------------------
\* Dispatch on the resource class
\* ------------------------------------------------------------------------
Check(d, t, pf) ==
  CASE d.kind = "mock" -> MockCheck(d, t)
    [] d.kind = "file" -> FileCheck(d, t)
    [] d.kind = "svc"  -> ServiceCheck(d, t, pf)
    [] d.kind = "pkg"  -> PackageCheck(d, t, pf)
    [] d.kind = "exec" -> ExecCheck(d, t)
    [] d.kind = "repository" -> RepositoryCheck(d, t, pf)

Desired(d) ==
  CASE d.kind = "mock" -> MockDesired(d)
    [] d.kind = "file" -> FileDesired(d)
    [] d.kind = "svc"  -> ServiceDesired(d)
    [] d.kind = "pkg"  -> PackageDesired(d)
    [] d.kind = "exec" -> ExecDesired(d)
    [] d.kind = "repository" -> RepositoryDesired(d)

Apply(d, obj, plan, cx, pf) ==
  CASE d.kind = "mock" -> Skip(cx)
    [] d.kind = "file" -> FileApply(d, obj, plan, cx)
    [] d.kind = "svc"  -> ServiceApply(d, plan.changes, 1, cx, pf)
    [] d.kind = "pkg"  -> PackageApply(d, plan, cx, pf)
    [] d.kind = "exec" -> ExecApply(d, obj, cx)
    [] d.kind = "repository" -> RepositoryApply(d, plan, cx, pf)

\* ------------------------------------------------------------------------
\* State
\* ------------------------------------------------------------------------
VARIABLES
  platform,     \* Executor.platform: [system, distro]
  driver,       \* the executor the script drives: the process-wide one or its own
  heap,         \* the Resource objects constructed in this run; an object is its index
  defs,         \* the constructor calls of the script, in order: [decl, oid], oid 0 if it raised
  resources,    \* Executor.resources of each executor: objects in order
  registry,     \* Executor._registry of each executor: id -> object
  target,       \* the host behind the transport
  planResult,   \* the PlanResult of the last Executor.plan
  applyResult,  \* the ApplyResult of the last Executor.apply
  trace,        \* the calls made by the last plan / apply, in order
  last,         \* the last operation and how it ended
  enable_state, \* Executor._enable_state of each executor
  store,        \* the state database: the resources table and the history table
  drift,        \* what the last call of the DriftDetector returned
  saved         \* the ResourceState handed to the last Store.save_resource by a caller

vars == <<platform, driver, heap, defs, resources, registry, target, planResult,
          applyResult, trace, last, enable_state, store, drift, saved>>

Executors == {"global", "local"}

NoPlans == [plans |-> <<>>, errors |-> <<>>]

\* phase is the phase of Executor.apply an exception left it from
NoApply == [changed |-> <<>>, errors |-> <<>>, returned |-> TRUE, phase |-> "none"]

\* DriftDetector.check_resource returning None, or not called yet
NoDrift ==
  [id |-> Nil, found |-> FALSE, drifted |-> FALSE, differences |-> <<>>, results |-> <<>>]

NoState ==
  [id |-> Nil, type |-> Nil, desired_state |-> <<>>, actual_state |-> <<>>, applied_at |-> 0,
   applied_by |-> Nil, hostname |-> Nil, config_file |-> Nil, status |-> Nil]

\* The database before the first run; writable says whether the database
\* file can be opened and written
EmptyStore(writable) == [resources |-> <<>>, history |-> <<>>, clock |-> 0, writable |-> writable]

\* The record of an operation: what it was, the operation before it, the
\* object it was about, whether it raised, whether the id was registered
\* already, and the resource list it started from
Last(op, oid, raised, dup, before) ==
  [op |-> op, prev |-> last.op, oid |-> oid, raised |-> raised, dup |-> dup,
   before |-> before]

NewObject(d) == [decl |-> d, actual |-> <<>>, desired |-> <<>>]

IdsOf(h, rs) == [i \in 1..Len(rs) |-> Id(h[rs[i]].decl)]

\* ------------------------------------------------------------------------
\* State store  (cook/state/store.py)
\* ------------------------------------------------------------------------
\* The number of applies that write to the store
MaxClock == 2

\* Python values that are no scalars: a tuple and the list of the same items
PyTuple == "(1, 2)"

PyList == "[1, 2]"

\* json.dumps of a value: None is written null, a tuple is written as the
\* array a list is written as, a scalar as its literal
JsonDumpsValue(v) ==
  CASE v = Nil     -> "null"
    [] v = PyTuple -> PyList
    [] OTHER       -> v

\* json.loads without the reading of null
JsonLoadsRaw(t) == t

\* json.loads of a value: null is read as None, an array as a list
JsonLoadsValue(t) == IF t = "null" THEN Nil ELSE t

\* json.dumps / json.loads of a state dict (keys are strings, order kept)
JsonDumps(d) == [i \in 1..Len(d) |-> <<d[i][1], JsonDumpsValue(d[i][2])>>]

JsonLoads(text) == [i \in 1..Len(text) |-> <<text[i][1], JsonLoadsValue(text[i][2])>>]

\* datetime.isoformat / datetime.fromisoformat, a time being a tick count
isoformat(n) == "T" \o ToString(n)

fromisoformat(text) == CHOOSE n \in 0..(MaxClock + 1) : isoformat(n) = text

ResourceState(id, type, desired, actual, at, status) ==
  [id |-> id, type |-> type, desired_state |-> desired, actual_state |-> actual,
   applied_at |-> at, applied_by |-> "user", hostname |-> "host",
   config_file |-> "unknown", status |-> status]

\* The row of the resources table written for a ResourceState
RowOf(s) ==
  [s EXCEPT !.desired_state = JsonDumps(s.desired_state),
            !.actual_state  = JsonDumps(s.actual_state),
            !.applied_at    = isoformat(s.applied_at)]

RowsWithout(rows, id) == SelectSeq(rows, LAMBDA r : r.id # id)

\* INSERT without OR REPLACE
save_resource_insert(st, s) == [st EXCEPT !.resources = Append(@, RowOf(s))]

\* Store.save_resource: INSERT OR REPLACE on the primary key id
save_resource(st, s) ==
  [st EXCEPT !.resources = Append(RowsWithout(@, s.id), RowOf(s))]

HasRow(st, id) == \E i \in 1..Len(st.resources) : st.resources[i].id = id

\* Store.get_resource: the stored row, read back
get_resource(st, id) ==
  IF ~HasRow(st, id) THEN NoState
  ELSE LET row == st.resources[CHOOSE i \in 1..Len(st.resources) : st.resources[i].id = id]
       IN  [row EXCEPT !.desired_state = JsonLoads(row.desired_state),
                       !.actual_state  = JsonLoads(row.actual_state),
                       !.applied_at    = fromisoformat(row.applied_at)]

\* The changes of a plan as _save_state writes them: field, from, to
ChangesText(changes) ==
  [i \in 1..Len(changes) |->
     <<changes[i][1], JsonDumpsValue(changes[i][2]), JsonDumpsValue(changes[i][3])>>]

HistoryEntry(at, id, action, changes) ==
  [timestamp |-> at, resource_id |-> id, action |-> action, user |-> "user",
   hostname |-> "host", success |-> TRUE, changes |-> changes, error |-> Nil]

\* Store.add_history: INSERT into the history table
add_history(st, e) ==
  [st EXCEPT !.history = Append(@, [e EXCEPT !.timestamp = isoformat(e.timestamp),
                                             !.success = IF e.success THEN 1 ELSE 0,
                                             !.changes = ChangesText(e.changes)])]

\* ------------------------------------------------------------------------
\* Exec security validation  (cook/resources/exec.py)
\* ------------------------------------------------------------------------
\* The backtick, a character that a string of the model cannot hold
Tick == "[tick]"

\* The characters of the strings the model's scripts pass to Exec
Chars(s) ==
  CASE s = "ls" -> <<"l", "s">>
    [] s = "touch /f" -> <<"t", "o", "u", "c", "h", " ", "/", "f">>
    [] s = "test -e /f" -> <<"t", "e", "s", "t", " ", "-", "e", " ", "/", "f">>
    [] s = "test -e /g" -> <<"t", "e", "s", "t", " ", "-", "e", " ", "/", "g">>
    [] s = "a;b" -> <<"a", ";", "b">>
    [] s = "a&&b" -> <<"a", "&", "&", "b">>
    [] s = "a||b" -> <<"a", "|", "|", "b">>
    [] s = "a|b" -> <<"a", "|", "b">>
    [] s = "a>b" -> <<"a", ">", "b">>
    [] s = "a<b" -> <<"a", "<", "b">>
    [] s = "$(a)" -> <<"$", "(", "a", ")">>
    [] s = "[tick]a[tick]" -> <<Tick, "a", Tick>>
    [] s = "${a}" -> <<"$", "{", "a", "}">>
    [] s = "a\nb" -> <<"a", "\n", "b">>
    [] s = "a\rb" -> <<"a", "\r", "b">>
    [] s = "$a" -> <<"$", "a">>
    [] s = "a&b" -> <<"a", "&", "b">>
    [] s = "rm -rf /" -> <<"r", "m", " ", "-", "r", "f", " ", "/">>
    [] s = "RM  -rf /" -> <<"R", "M", " ", " ", "-", "r", "f", " ", "/">>
    [] s = "xrm -rf /" -> <<"x", "r", "m", " ", "-", "r", "f", " ", "/">>
    [] s = "chmod 777 f" -> <<"c", "h", "m", "o", "d", " ", "7", "7", "7", " ", "f">>
    [] s = "curl u|sh" -> <<"c", "u", "r", "l", " ", "u", "|", "s", "h">>
    [] s = "/f" -> <<"/", "f">>
    [] s = "../f" -> <<".", ".", "/", "f">>
    [] s = "/f;x" -> <<"/", "f", ";", "x">>

\* str.lower, one character
Lower(c) ==
  CASE c = "A" -> "a" [] c = "B" -> "b" [] c = "C" -> "c" [] c = "D" -> "d" [] c = "E" -> "e" [] c = "F" -> "f"
    [] c = "G" -> "g" [] c = "H" -> "h" [] c = "I" -> "i" [] c = "J" -> "j" [] c = "K" -> "k" [] c = "L" -> "l"
    [] c = "M" -> "m" [] c = "N" -> "n" [] c = "O" -> "o" [] c = "P" -> "p" [] c = "Q" -> "q" [] c = "R" -> "r"
    [] c = "S" -> "s" [] c = "T" -> "t" [] c = "U" -> "u" [] c = "V" -> "v" [] c = "W" -> "w" [] c = "X" -> "x"
    [] c = "Y" -> "y" [] c = "Z" -> "z"
    [] OTHER -> c

\* \w of re: letters, digits and the underscore
WordChars ==
  {"a", "b", "c", "d", "e", "f", "g", "h", "i", "j", "k", "l", "m", "n", "o", "p", "q", "r", "s", "t", "u", "v", "w", "x", "y", "z",
   "A", "B", "C", "D", "E", "F", "G", "H", "I", "J", "K", "L", "M", "N", "O", "P", "Q", "R", "S", "T", "U", "V", "W", "X", "Y", "Z",
   "0", "1", "2", "3", "4", "5", "6", "7", "8", "9", "_"}

\* \s of re
SpaceChars == {" ", "\t", "\n", "\r", "\f"}

\* A regular expression is a sequence of items: one character of a set (or
\* of its complement), one or more, zero or more, or a word boundary
One(S)    == [k |-> "one",  s |-> S, neg |-> FALSE]
Plus(S)   == [k |-> "plus", s |-> S, neg |-> FALSE]
Star(S)   == [k |-> "star", s |-> S, neg |-> FALSE]
AnyStar   == [k |-> "star", s |-> {"\n"}, neg |-> TRUE]
WordEdge  == [k |-> "edge", s |-> {}, neg |-> FALSE]
Literal(cs) == [i \in 1..Len(cs) |-> One({cs[i]})]

Matches(c, item, ignorecase) ==
  ((IF ignorecase THEN Lower(c) ELSE c) \in item.s) # item.neg

IsWordAt(cs, j) == j \in 1..Len(cs) /\ cs[j] \in WordChars

\* re: the items from p on match the characters from j on
RECURSIVE MatchAt(_, _, _, _, _)
MatchAt(pat, p, cs, j, ignorecase) ==
  IF p > Len(pat) THEN TRUE
  ELSE CASE pat[p].k = "one" ->
              /\ j <= Len(cs)
              /\ Matches(cs[j], pat[p], ignorecase)
              /\ MatchAt(pat, p + 1, cs, j + 1, ignorecase)
         [] pat[p].k = "plus" ->
              \E n \in 1..(Len(cs) - j + 1) :
                /\ \A q \in j..(j + n - 1) : Matches(cs[q], pat[p], ignorecase)
                /\ MatchAt(pat, p + 1, cs, j + n, ignorecase)
         [] pat[p].k = "star" ->
              \E n \in 0..(Len(cs) - j + 1) :
                /\ \A q \in j..(j + n - 1) : Matches(cs[q], pat[p], ignorecase)
                /\ MatchAt(pat, p + 1, cs, j + n, ignorecase)
         [] pat[p].k = "edge" ->
              /\ IsWordAt(cs, j - 1) # IsWordAt(cs, j)
              /\ MatchAt(pat, p + 1, cs, j, ignorecase)

\* re.search(pattern, string)
re_search(pat, cs, ignorecase) ==
  \E j \in 1..(Len(cs) + 1) : MatchAt(pat, 1, cs, j, ignorecase)

\* Exec.DANGEROUS_PATTERNS, each with the name it is reported under
DANGEROUS_PATTERNS ==
  << [n |-> ";",  pat |-> Literal(<<";">>)],
     [n |-> "&&", pat |-> Literal(<<"&", "&">>)],
     [n |-> "||", pat |-> Literal(<<"|", "|">>)],
     [n |-> "|",  pat |-> Literal(<<"|">>)],
     [n |-> "$(", pat |-> Literal(<<"$", "(">>)],
     [n |-> Tick, pat |-> Literal(<<Tick>>)],
     [n |-> "${", pat |-> Literal(<<"$", "{">>)],
     [n |-> ">",  pat |-> Literal(<<">">>)],
     [n |-> "<",  pat |-> Literal(<<"<">>)],
     [n |-> "\\n", pat |-> Literal(<<"\n">>)],
     [n |-> "\\r", pat |-> Literal(<<"\r">>)] >>

\* Exec.DANGEROUS_COMMANDS; an alternation (bash|sh) is written as the set
\* of its alternatives
DANGEROUS_COMMANDS ==
  << {<<WordEdge>> \o Literal(<<"r", "m">>) \o <<Plus(SpaceChars)>> \o Literal(<<"-", "r", "f">>)
        \o <<Plus(SpaceChars)>> \o Literal(<<"/">>)},
     {<<WordEdge>> \o Literal(<<"d", "d">>) \o <<Plus(SpaceChars)>> \o Literal(<<"i", "f", "=", "/", "d", "e", "v", "/">>)},
     {<<WordEdge>> \o Literal(<<"m", "k", "f", "s", ".">>)},
     {<<WordEdge>> \o Literal(<<":", "(", ")", "{">>) \o <<Star(SpaceChars)>> \o Literal(<<":", "|", ":", "&">>)
        \o <<Star(SpaceChars)>> \o Literal(<<"}", ";", ":">>)},
     {<<WordEdge>> \o Literal(<<"c", "h", "m", "o", "d">>) \o <<Plus(SpaceChars)>> \o Literal(<<"7", "7", "7">>)},
     {<<WordEdge>> \o Literal(<<"c", "h", "o", "w", "n">>) \o <<Plus(SpaceChars), AnyStar>> \o Literal(<<"r", "o", "o", "t">>)},
     {Literal(<<"c", "u", "r", "l">>) \o <<AnyStar>> \o Literal(<<"|">>) \o <<Star(SpaceChars)>> \o Literal(sh) :
        sh \in {<<"b", "a", "s", "h">>, <<"s", "h">>}},
     {Literal(<<"w", "g", "e", "t">>) \o <<AnyStar>> \o Literal(<<"|">>) \o <<Star(SpaceChars)>> \o Literal(sh) :
        sh \in {<<"b", "a", "s", "h">>, <<"s", "h">>}},
     {<<WordEdge>> \o Literal(<<"e", "v", "a", "l">>) \o <<One(SpaceChars)>>},
     {Literal(<<"/", "d", "e", "v", "/", "s", "d">>) \o <<One({"a", "b", "c", "d", "e", "f", "g", "h", "i", "j", "k", "l", "m", "n", "o", "p", "q", "r", "s", "t", "u", "v", "w", "x", "y", "z"})>>} >>


\* SecurityLevel(security_level.lower()), STRICT where that is no level
SecurityLevelOf(text) ==
  CASE text \in {"none", "NONE"} -> "none"
    [] text \in {"warn", "WARN"} -> "warn"
    [] OTHER -> "strict"

\* The level as passed, safe_mode left aside
EffectiveLevelAsPassed(d) == SecurityLevelOf(d.security_level)

\* Exec.__init__: safe_mode sets the level to STRICT
EffectiveLevel(d) == IF d.safe_mode THEN "strict" ELSE SecurityLevelOf(d.security_level)

\* A check that lets every pipe and redirect pass
PatternSkippedAlways(d, n) == n \in {"|", ">", "<"}

\* Exec._check_command_security: the patterns that are allowed
PatternSkipped(d, n) ==
  \/ n = "|" /\ d.allow_pipes
  \/ n \in {">", "<"} /\ d.allow_redirects

\* Exec._check_command_security: the issues of one command, by name
check_command_security(d, cs) ==
  {DANGEROUS_PATTERNS[i].n :
     i \in {k \in DOMAIN DANGEROUS_PATTERNS :
              /\ ~PatternSkipped(d, DANGEROUS_PATTERNS[k].n)
              /\ re_search(DANGEROUS_PATTERNS[k].pat, cs, FALSE)}}
  \cup {"command " \o ToString(i) :
          i \in {k \in DOMAIN DANGEROUS_COMMANDS :
                   \E pat \in DANGEROUS_COMMANDS[k] : re_search(pat, cs, TRUE)}}
  \cup (IF /\ re_search(Literal(<<"$">>), cs, FALSE)
           /\ ~re_search(Literal(<<"$", "{">>), cs, FALSE)
           /\ ~re_search(Literal(<<"$", "(">>), cs, FALSE)
        THEN {"shell variable"} ELSE {})

\* Exec._check_path_security (the strings of the model hold no null byte)
check_path_security(cs) ==
  {c \in {";", "&", "|", "$", Tick, "\n", "\r"} : re_search(Literal(<<c>>), cs, FALSE)}
  \cup (IF re_search(Literal(<<".", ".">>), cs, FALSE) THEN {".."} ELSE {})

\* Exec._validate_security, the issues collected (cwd and environment are
\* left at their defaults)
SecurityIssues(d) ==
  check_command_security(d, Chars(d.command))
  \cup (IF d.unless # Nil THEN check_command_security(d, Chars(d.unless)) ELSE {})
  \cup (IF d.only_if # Nil THEN check_command_security(d, Chars(d.only_if)) ELSE {})
  \cup (IF d.creates # Nil THEN check_path_security(Chars(d.creates)) ELSE {})

\* Exec._validate_security: raise SecurityViolation, log a warning, or pass
validate_security(d) ==
  IF EffectiveLevel(d) = "none" THEN "ok"
  ELSE IF SecurityIssues(d) = {} THEN "ok"
  ELSE IF EffectiveLevel(d) = "strict" THEN "raise"
  ELSE "warn"

\* str.lower() on the action names scripts pass
LowerText(a) ==
  CASE a = "ADD" -> "add"
    [] a = "Update" -> "update"
    [] OTHER -> a

\* A validation that only looks at the action
RepositoryInvalidAction(d) ==
  LowerText(d.action) \notin {"add", "update", "upgrade"}

\* Repository.__init__, the two validations (declarations without ppa)
RepositoryInvalid(d) ==
  \/ LowerText(d.action) \notin {"add", "update", "upgrade"}
  \/ LowerText(d.action) = "add" /\ d.repo = Nil /\ d.tap = Nil

\* The fields __init__ stores on the object
Initialised(d) ==
  IF d.kind = "repository" THEN [d EXCEPT !.action = LowerText(@)] ELSE d

\* A constructor's validation of its arguments, before it registers
ConstructorRaises(d) ==
  \/ d.kind = "exec" /\ validate_security(d) = "raise"
  \/ d.kind = "repository" /\ RepositoryInvalid(d)

\* What a constructor logs: the warning of Exec for safe_mode = False, and
\* the issues found at the level warn
ConstructorLog(d) ==
  IF d.kind # "exec" THEN <<>>
  ELSE (IF ~d.safe_mode THEN << <<"security_warning", Id(d)>> >> ELSE <<>>)
       \o (IF validate_security(d) = "warn" THEN << <<"warning", Id(d)>> >> ELSE <<>>)


\* ------------------------------------------------------------------------
\* Executor  (cook/core/executor.py)
\* ------------------------------------------------------------------------
\* An add that appends without looking at the index
ExecutorAddAppending(rs, reg, id, oid) ==
  [raised |-> FALSE, rs |-> Append(rs, oid),
   reg |-> (id :> oid) @@ [k \in DOMAIN reg \ {id} |-> reg[k]]]

\* Executor.add on the list rs and the index reg
ExecutorAdd(rs, reg, id, oid) ==
  IF id \in DOMAIN reg
  THEN [raised |-> TRUE, rs |-> rs, reg |-> reg]
  ELSE [raised |-> FALSE, rs |-> Append(rs, oid), reg |-> (id :> oid) @@ reg]

\* Executor.get
ExecutorGet(reg, id) == IF id \in DOMAIN reg THEN reg[id] ELSE 0

\* A resource constructor: __init__ of the class, which validates its
\* arguments and ends (all but the mock) with get_executor().add(self).
Construct(d, max) ==
  /\ Len(defs) < max
  /\ LET oid == Len(heap) + 1
         r   == ExecutorAdd(resources["global"], registry["global"], Id(d), oid)
     IN  IF ConstructorRaises(d)
         THEN /\ defs' = Append(defs, [decl |-> d, oid |-> 0])
              /\ last' = Last("construct", 0, TRUE, FALSE, resources["global"])
              /\ UNCHANGED <<heap, resources, registry>>
         ELSE IF SelfRegisters(d) /\ r.raised
         THEN /\ defs' = Append(defs, [decl |-> d, oid |-> 0])
              /\ last' = Last("construct", 0, TRUE, TRUE, resources["global"])
              /\ UNCHANGED <<heap, resources, registry>>
         ELSE /\ defs' = Append(defs, [decl |-> d, oid |-> oid])
              /\ heap' = Append(heap, NewObject(Initialised(d)))
              /\ last' = Last("construct", oid, FALSE, FALSE, resources["global"])
              /\ IF SelfRegisters(d)
                 THEN /\ resources' = [resources EXCEPT !["global"] = r.rs]
                      /\ registry'  = [registry EXCEPT !["global"] = r.reg]
                 ELSE UNCHANGED <<resources, registry>>
  /\ trace' = trace \o ConstructorLog(d)
  /\ UNCHANGED <<platform, driver, target, planResult, applyResult,
               enable_state, store, drift, saved>>

\* executor.add(obj) by the script, on the executor it drives
Add(oid) ==
  /\ oid \in 1..Len(heap)
  /\ LET id == Id(heap[oid].decl)
         r  == ExecutorAdd(resources[driver], registry[driver], id, oid)
     IN  /\ resources' = [resources EXCEPT ![driver] = r.rs]
         /\ registry'  = [registry EXCEPT ![driver] = r.reg]
         /\ last' = Last("add", oid, r.raised, id \in DOMAIN registry[driver], resources[driver])
  /\ UNCHANGED <<platform, driver, heap, defs, target, planResult, applyResult, trace,
               enable_state, store, drift, saved>>

\* Executor.clear
Clear ==
  /\ resources[driver] # <<>>
  /\ resources' = [resources EXCEPT ![driver] = <<>>]
  /\ registry'  = [registry EXCEPT ![driver] = <<>>]
  /\ last' = Last("clear", 0, FALSE, FALSE, resources[driver])
  /\ UNCHANGED <<platform, driver, heap, defs, target, planResult, applyResult, trace,
               enable_state, store, drift, saved>>

\* reset_executor() and a fresh Executor(): the next run (or test case) on
\* the same host
NewRun ==
  /\ heap # <<>>
  /\ heap' = <<>>
  /\ defs' = <<>>
  /\ resources' = [e \in Executors |-> <<>>]
  /\ registry'  = [e \in Executors |-> <<>>]
  /\ planResult' = NoPlans
  /\ applyResult' = NoApply
  /\ trace' = <<>>
  /\ last' = Last("reset", 0, FALSE, FALSE, <<>>)
  /\ enable_state' = [e \in Executors |-> FALSE]
  /\ drift' = NoDrift
  /\ UNCHANGED <<platform, driver, target, store, saved>>

\* Executor.plan, the body of the loop: what is recorded for one resource
\* once its check (chk) and its desired_state (des) are known
PlanRecord(ac, oid, id, chk, des) ==
  LET cx  == DoAll(Note([t |-> ac.t, trace |-> ac.trace], <<"check", id>>), chk.ops)
      ac1 == [ac EXCEPT !.t = cx.t, !.trace = cx.trace]
  IN  IF chk.raised
      THEN [ac1 EXCEPT !.errors = Append(@, id)]
      ELSE IF des.raised
      THEN [ac1 EXCEPT !.errors = Append(@, id), !.heap[oid].actual = chk.st]
      ELSE [ac1 EXCEPT !.heap[oid].actual = chk.st,
                       !.heap[oid].desired = des.st,
                       !.plans = (id :> ResourcePlan(chk.st, des.st)) @@ @]

PlanOne(ac, oid) ==
  PlanRecord(ac, oid, Id(ac.heap[oid].decl),
             Check(ac.heap[oid].decl, ac.t, platform), Desired(ac.heap[oid].decl))

\* Executor.plan: the loop over self.resources
RECURSIVE PlanLoop(_, _, _)
PlanLoop(rs, i, ac) ==
  IF i > Len(rs) THEN ac ELSE PlanLoop(rs, i + 1, PlanOne(ac, rs[i]))

PlanCommit(r) ==
  /\ planResult' = [plans |-> r.plans, errors |-> r.errors]
  /\ heap' = r.heap
  /\ target' = r.t
  /\ trace' = r.trace
  /\ last' = Last("plan", 0, FALSE, FALSE, resources[driver])
  /\ UNCHANGED <<platform, driver, defs, resources, registry, applyResult,
               enable_state, store, drift, saved>>

ExecutorPlan ==
  /\ resources[driver] # <<>>
  /\ PlanCommit(PlanLoop(resources[driver], 1,
                         [t |-> target, heap |-> heap, plans |-> <<>>, errors |-> <<>>,
                          trace |-> <<>>]))

\* The changed list kept newest first
ApplyRefreshPrepending(ac, oid, id, cx, chk) ==
  [ac EXCEPT !.t = cx.t, !.trace = Append(cx.trace, <<"applied", id>>),
             !.changed = <<id>> \o @]

\* Executor.apply, phase 1, after a successful resource.apply: the resource
\* is listed as changed and its actual state is refreshed by check (chk)
ApplyRefresh(ac, oid, id, cx, chk) ==
  LET cx2 == DoAll(Note(cx, <<"applied", id>>), chk.ops)
      ac1 == [ac EXCEPT !.t = cx2.t, !.trace = cx2.trace, !.changed = Append(@, id)]
  IN  IF chk.raised
      THEN [ac1 EXCEPT !.errors = Append(@, id)]
      ELSE [ac1 EXCEPT !.heap[oid].actual = chk.st]

\* An except clause that lists the failed resource as changed as well
ApplyOutcomeListingFailed(ac, oid, id, r) ==
  IF ~r.ok
  THEN [ac EXCEPT !.t = r.cx.t,
                  !.trace = Append(r.cx.trace, <<"failed", id>>),
                  !.changed = Append(@, id),
                  !.errors = Append(@, id)]
  ELSE ApplyRefresh(ac, oid, id, r.cx, Check(ac.heap[oid].decl, r.cx.t, platform))

\* Executor.apply, phase 1: the try / except around resource.apply, r being
\* the outcome of resource.apply
ApplyOutcome(ac, oid, id, r) ==
  IF ~r.ok
  THEN [ac EXCEPT !.t = r.cx.t,
                  !.trace = Append(r.cx.trace, <<"failed", id>>),
                  !.errors = Append(@, id)]
  ELSE ApplyRefresh(ac, oid, id, r.cx, Check(ac.heap[oid].decl, r.cx.t, platform))

\* Executor.apply, phase 1, the body of the loop
ApplyOne(ac, pr, oid) ==
  LET obj == ac.heap[oid]
      id  == Id(obj.decl)
  IN  IF id \notin DOMAIN pr.plans \/ ~has_changes(pr.plans[id])
      THEN ac
      ELSE ApplyOutcome(ac, oid, id,
                        Apply(obj.decl, obj, pr.plans[id],
                              Note([t |-> ac.t, trace |-> ac.trace], <<"apply", id>>),
                              platform))

\* A loop over self.resources that ends at the first failed resource
RECURSIVE ApplyLoopAborting(_, _, _, _)
ApplyLoopAborting(rs, pr, i, ac) ==
  IF i > Len(rs) \/ ac.errors # <<>> THEN ac
  ELSE ApplyLoopAborting(rs, pr, i + 1, ApplyOne(ac, pr, rs[i]))

\* Executor.apply, phase 1: the loop over self.resources
RECURSIVE ApplyLoop(_, _, _, _)
ApplyLoop(rs, pr, i, ac) ==
  IF i > Len(rs) THEN ac ELSE ApplyLoop(rs, pr, i + 1, ApplyOne(ac, pr, rs[i]))

\* Executor._trigger_service_reloads, one service: r is the outcome of its
\* restart() or reload(); an exception leaves the loop
TriggerOutcome(ac, r) ==
  IF r.ok THEN [ac EXCEPT !.t = r.cx.t, !.trace = r.cx.trace]
  ELSE [t |-> r.cx.t, trace |-> r.cx.trace, raised |-> TRUE]

\* A trigger pass without the continue after restart(): a service named by
\* both lists is restarted and then reloaded as well
TriggerReloadAfter(a1, d, changed) ==
  IF should_reload(d, changed) /\ ~a1.raised
  THEN TriggerOutcome(a1, ServiceReload(d, Note([t |-> a1.t, trace |-> a1.trace],
                                                <<"reload", Id(d)>>), platform))
  ELSE a1

TriggerOneBoth(ac, d, changed) ==
  IF d.kind # "svc" THEN ac
  ELSE IF should_restart(d, changed)
  THEN TriggerReloadAfter(
         TriggerOutcome(ac, ServiceRestart(d, Note([t |-> ac.t, trace |-> ac.trace],
                                                   <<"restart", Id(d)>>), platform)),
         d, changed)
  ELSE TriggerReloadAfter(ac, d, changed)

TriggerOne(ac, d, changed) ==
  IF d.kind # "svc" THEN ac
  ELSE IF should_restart(d, changed)
  THEN TriggerOutcome(ac, ServiceRestart(d, Note([t |-> ac.t, trace |-> ac.trace],
                                                 <<"restart", Id(d)>>), platform))
  ELSE IF should_reload(d, changed)
  THEN TriggerOutcome(ac, ServiceReload(d, Note([t |-> ac.t, trace |-> ac.trace],
                                                <<"reload", Id(d)>>), platform))
  ELSE ac

\* Executor._trigger_service_reloads: the loop over self.resources
RECURSIVE TriggerLoop(_, _, _, _, _)
TriggerLoop(rs, h, changed, i, ac) ==
  IF i > Len(rs) \/ ac.raised THEN ac
  ELSE TriggerLoop(rs, h, changed, i + 1, TriggerOne(ac, h[rs[i]].decl, changed))

\* Executor.apply, phase 2: triggers if anything changed
ApplyTriggers(rs, a) ==
  IF a.changed # <<>>
  THEN TriggerLoop(rs, a.heap, a.changed, 1, [t |-> a.t, trace |-> a.trace, raised |-> FALSE])
  ELSE [t |-> a.t, trace |-> a.trace, raised |-> FALSE]

\* Executor._save_state, the body of the loop: the row of one resource
SaveRow(sc, id, obj, changed) ==
  [sc EXCEPT !.store = save_resource(@, ResourceState(id, resource_type(obj.decl),
                                                      obj.desired, obj.actual, sc.store.clock,
                                                      IF changed THEN "success"
                                                      ELSE "unchanged")),
             !.trace = Append(@, <<"save", id>>)]

\* Executor._save_state, the body of the loop: the history entry of a
\* resource that changed
SaveHistory(sc, id, plan, changed) ==
  IF changed
  THEN [sc EXCEPT !.store = add_history(@, HistoryEntry(sc.store.clock, id, plan.action,
                                                        plan.changes)),
                  !.trace = Append(@, <<"history", id>>)]
  ELSE sc

SaveOne(sc, pr, a, oid) ==
  LET id == Id(a.heap[oid].decl)
  IN  IF id \notin DOMAIN pr.plans THEN sc
      ELSE SaveHistory(SaveRow(sc, id, a.heap[oid], id \in Range(a.changed)),
                       id, pr.plans[id], id \in Range(a.changed))

\* Executor._save_state: the loop over self.resources
RECURSIVE SaveLoop(_, _, _, _, _)
SaveLoop(rs, pr, a, i, sc) ==
  IF i > Len(rs) THEN sc ELSE SaveLoop(rs, pr, a, i + 1, SaveOne(sc, pr, a, rs[i]))

\* Executor._save_state: an error of the database leaves it as an exception
SaveState(rs, pr, a, sc) ==
  IF ~sc.store.writable THEN [sc EXCEPT !.raised = TRUE]
  ELSE [SaveLoop(rs, pr, a, 1, sc) EXCEPT !.store.clock = @ + 1]

\* Executor.apply, phase 3: the state is saved if tracking is enabled; g is
\* the outcome of phase 2, whose exception leaves Executor.apply before
ApplyPersist(rs, a, g) ==
  IF ~g.raised /\ enable_state[driver]
  THEN SaveState(rs, planResult, a, [store |-> store, trace |-> g.trace, raised |-> FALSE])
  ELSE [store |-> store, trace |-> g.trace, raised |-> FALSE]

\* a is the outcome of phase 1, g the outcome of phase 2, s the outcome of
\* phase 3; an exception of phase 2 or 3 leaves Executor.apply, and no
\* ApplyResult is returned
ApplyCommit(rs, a, g, s) ==
  /\ applyResult' = [changed |-> a.changed, errors |-> a.errors,
                     returned |-> ~g.raised /\ ~s.raised,
                     phase |-> IF g.raised THEN "triggers"
                               ELSE IF s.raised THEN "save" ELSE "none"]
  /\ heap' = a.heap
  /\ target' = g.t
  /\ trace' = s.trace
  /\ store' = s.store
  /\ last' = Last("apply", 0, g.raised \/ s.raised, FALSE, rs)
  /\ UNCHANGED <<platform, driver, defs, resources, registry, planResult,
                 enable_state, drift, saved>>

ApplyPhase3(rs, a, g) == ApplyCommit(rs, a, g, ApplyPersist(rs, a, g))

\* An apply that saves the state before the trigger pass: s is the outcome
\* of the save, g the outcome of the trigger pass that follows it
ApplyTriggersAfter(rs, a, s, g) == ApplyCommit(rs, a, g, [s EXCEPT !.trace = g.trace])

ApplySavedFirst(rs, a, s) ==
  ApplyTriggersAfter(rs, a, s, ApplyTriggers(rs, [a EXCEPT !.trace = s.trace]))

ApplyPhasesSavingFirst(rs, a) ==
  ApplySavedFirst(rs, a, ApplyPersist(rs, a, [t |-> a.t, trace |-> a.trace, raised |-> FALSE]))

ApplyPhases(rs, a) == ApplyPhase3(rs, a, ApplyTriggers(rs, a))

\* Executor.apply(plan_result) with the PlanResult of the plan just computed;
\* the script may have declared one more resource since
ExecutorApply ==
  /\ resources[driver] # <<>>
  /\ enable_state[driver] => store.clock < MaxClock
  /\ last.op = "plan" \/ (last.op \in {"construct", "add"} /\ last.prev = "plan")
  /\ ApplyPhases(resources[driver],
                 ApplyLoop(resources[driver], planResult, 1,
                           [t |-> target, heap |-> heap, changed |-> <<>>, errors |-> <<>>,
                            trace |-> <<>>]))

\* Executor.enable_state_tracking
EnableStateTracking ==
  /\ ~enable_state[driver]
  /\ enable_state' = [enable_state EXCEPT ![driver] = TRUE]
  /\ last' = Last("enable", 0, FALSE, FALSE, resources[driver])
  /\ UNCHANGED <<platform, driver, heap, defs, resources, registry, target, planResult,
                 applyResult, trace, store, drift, saved>>

\* ------------------------------------------------------------------------
\* Drift detector  (cook/monitor/drift.py)
\* ------------------------------------------------------------------------
\* str.replace(prefix, ""), for the ids of the model's names
NameOf(id, type) ==
  CHOOSE n \in Paths \cup PkgNames \cup RepoNames \cup {"s", "w", "m", "e", "tools"} :
    type \o ":" \o n = id

\* DriftDetector._load_resource: the declaration made for a stored state,
\* the name alone; NoDecl where no resource is made
NoDecl == [D0 EXCEPT !.kind = "none"]

LoadDecl(state) ==
  CASE state.type = "file" -> File(NameOf(state.id, "file"), Nil, "file", Nil)
    [] state.type = "pkg"  -> Package(NameOf(state.id, "pkg"), Nil, "present", <<>>)
    [] state.type = "svc"  -> Service(NameOf(state.id, "svc"), Nil, Nil, <<>>, <<>>)
    [] OTHER -> NoDecl

\* A comparison that reports every field of the stored state
CompareAll(stored, current) ==
  [j \in 1..Len(stored) |-> <<stored[j][1], stored[j][2], Get(current, stored[j][1])>>]

\* DriftDetector._compare_states: the differences, field by field, each with
\* the expected (stored) and the actual (current) value
RECURSIVE CompareFrom(_, _, _)
CompareFrom(stored, current, i) ==
  IF i > Len(stored) THEN <<>>
  ELSE LET key  == stored[i][1]
           sv   == stored[i][2]
           cv   == Get(current, key)
           rest == CompareFrom(stored, current, i + 1)
       IN  IF key = "exists" THEN rest
           ELSE IF sv = Nil /\ cv = Nil THEN rest
           ELSE IF sv # cv THEN <<<<key, sv, cv>>>> \o rest
           ELSE rest

CompareStates(stored, current) == CompareFrom(stored, current, 1)

\* A detector that marks every resource it has checked
DriftMarkAlways(st, state, differences) ==
  save_resource(st, [state EXCEPT !.status = "drift"])

\* DriftDetector.check_resource: if drifted, the loaded state is given the
\* status drift and saved
DriftMark(st, state, differences) ==
  IF differences # <<>> THEN save_resource(st, [state EXCEPT !.status = "drift"]) ELSE st

\* What a call of the detector starts from: the objects and the process-wide
\* executor, the store, and nothing done yet
DriftCtx ==
  [heap |-> heap, rs |-> resources["global"], reg |-> registry["global"], store |-> store,
   trace |-> <<>>, results |-> <<>>, result |-> NoDrift, raised |-> FALSE, dup |-> FALSE,
   oid |-> 0]

\* DriftDetector.check_resource once the stored state is loaded, the
\* resource made (object oid) and checked (chk): compare, and save if
\* drifted; an exception of check leaves check_resource
DriftCompare(dc, id, state, oid, d, r, chk, differences) ==
  IF chk.raised
  THEN [dc EXCEPT !.heap = Append(@, NewObject(d)), !.rs = r.rs, !.reg = r.reg,
                  !.trace = @ \o chk.ops, !.oid = oid, !.dup = FALSE,
                  !.raised = TRUE, !.result = NoDrift]
  ELSE [dc EXCEPT !.heap = Append(@, NewObject(d)), !.rs = r.rs, !.reg = r.reg,
                  !.trace = @ \o chk.ops, !.oid = oid, !.dup = FALSE,
                  !.result = [NoDrift EXCEPT !.id = id, !.found = TRUE,
                                             !.drifted = differences # <<>>,
                                             !.differences = differences],
                  !.store = DriftMark(@, state, differences)]

\* DriftDetector.check_resource once the stored state is loaded: the
\* resource is made from its name, which registers it with the process-wide
\* executor; an exception of the constructor gives None
DriftLoad(dc, id, state, oid, d, r) ==
  IF d = NoDecl \/ r.raised
  THEN [dc EXCEPT !.result = NoDrift, !.dup = (d # NoDecl), !.oid = 0]
  ELSE DriftCompare(dc, id, state, oid, d, r, Check(d, target, platform),
                    CompareStates(state.actual_state, Check(d, target, platform).st))

DriftRegister(dc, id, state, d) ==
  DriftLoad(dc, id, state, Len(dc.heap) + 1, d,
            IF d = NoDecl THEN [raised |-> FALSE, rs |-> <<>>, reg |-> <<>>]
            ELSE ExecutorAdd(dc.rs, dc.reg, Id(d), Len(dc.heap) + 1))

\* DriftDetector.check_resource(resource_id), from dc on
check_resource(dc, id) ==
  IF ~HasRow(dc.store, id)
  THEN [dc EXCEPT !.result = NoDrift, !.dup = FALSE, !.oid = 0]
  ELSE DriftRegister(dc, id, get_resource(dc.store, id), LoadDecl(get_resource(dc.store, id)))

\* The detector's call returns (or raises): op names the call, value is
\* what it returned
DriftCommit(dc, op, value) ==
  /\ heap' = dc.heap
  /\ resources' = [resources EXCEPT !["global"] = dc.rs]
  /\ registry'  = [registry EXCEPT !["global"] = dc.reg]
  /\ trace' = dc.trace
  /\ store' = dc.store
  /\ drift' = value
  /\ last' = Last(op, dc.oid, dc.raised, dc.dup, resources["global"])
  /\ UNCHANGED <<platform, driver, defs, target, planResult, applyResult, enable_state,
                 saved>>

DriftReturn(dc, op) == DriftCommit(dc, op, [dc.result EXCEPT !.results = dc.results])

\* DriftDetector.check_resource(resource_id)
CheckResource(id) == DriftReturn(check_resource(DriftCtx, id), "drift")

\* Store.list_resources: the ids of the rows, ORDER BY applied_at DESC, rows
\* of one time in the order of the table
RECURSIVE RowsAt(_, _)
RowsAt(rows, at) ==
  IF at < 0 THEN <<>>
  ELSE [i \in 1..Len(SelectSeq(rows, LAMBDA r : r.applied_at = isoformat(at))) |->
          SelectSeq(rows, LAMBDA r : r.applied_at = isoformat(at))[i].id]
       \o RowsAt(rows, at - 1)

list_resources(st) == RowsAt(st.resources, MaxClock + 1)

\* DriftDetector.check_all, the body of the loop: a result that is not None
\* is appended
CheckAllCollect(dc) ==
  IF dc.result.found /\ ~dc.raised
  THEN [dc EXCEPT !.results = Append(@, dc.result)]
  ELSE dc

\* DriftDetector.check_all: the loop over list_resources; an exception of
\* check_resource leaves it
RECURSIVE CheckAllLoop(_, _, _)
CheckAllLoop(ids, i, dc) ==
  IF i > Len(ids) \/ dc.raised THEN dc
  ELSE CheckAllLoop(ids, i + 1, CheckAllCollect(check_resource(dc, ids[i])))

CheckAllReturn(dc) ==
  DriftReturn([dc EXCEPT !.result = NoDrift, !.oid = 0, !.dup = FALSE,
                         !.results = IF dc.raised THEN <<>> ELSE @], "drift_all")

\* DriftDetector.check_all()
CheckAll == CheckAllReturn(CheckAllLoop(list_resources(store), 1, DriftCtx))

\* ------------------------------------------------------------------------
\* Hosts and scripts
\* ------------------------------------------------------------------------
Ubuntu == [system |-> "Linux", distro |-> "ubuntu"]

EmptyHost ==
  [files |-> [p \in AllPaths |-> AbsentFile], running |-> {}, enabled |-> {}, broken |-> {},
   pkgs |-> [n \in PkgNames |-> Nil], taps |-> {}, age |-> 0, stamps |-> TRUE]

InitBase(platforms, drivers, hosts) ==
  /\ platform \in platforms
  /\ driver \in drivers
  /\ target \in hosts
  /\ heap = <<>>
  /\ defs = <<>>
  /\ resources = [e \in Executors |-> <<>>]
  /\ registry = [e \in Executors |-> <<>>]
  /\ planResult = NoPlans
  /\ applyResult = NoApply
  /\ trace = <<>>
  /\ last = [op |-> "init", prev |-> "init", oid |-> 0, raised |-> FALSE, dup |-> FALSE,
             before |-> <<>>]
  /\ enable_state = [e \in Executors |-> FALSE]
  /\ drift = NoDrift
  /\ saved = NoState

\* A first run, before which nothing was stored
InitWith(platforms, drivers, hosts) ==
  /\ InitBase(platforms, drivers, hosts)
  /\ store = EmptyStore(TRUE)

Fedora == [system |-> "Linux", distro |-> "fedora"]

Arch == [system |-> "Linux", distro |-> "arch"]

MacOS == [system |-> "Darwin", distro |-> ""]

FreeBSD == [system |-> "FreeBSD", distro |-> ""]

\* A host that has been in use: a file and a directory, a running service,
\* an installed package, configured repositories and a stale package cache
UsedHost ==
  [EmptyHost EXCEPT
     !.files["/f"] = [NewFile("old") EXCEPT !.mode = "600"],
     !.files["/g"] = NewDir,
     !.files[AptStamp] = NewFile(""),
     !.files[PacmanDb] = NewFile(""),
     !.files[PacmanConf] = NewFile("[core]\n[r]\n"),
     !.files[AptSource("r.list")] = NewFile("deb old\n"),
     !.running = {"s"},
     !.pkgs["p"] = "0.9",
     !.taps = {"t/ap"},
     !.age = FreshSeconds + 1]

\* A host on which mutations fail: the package source is unreachable, the
\* package p cannot be installed, the services s cannot be started
BrokenHost ==
  [EmptyHost EXCEPT
     !.files["/g"] = NewDir,
     !.files[PacmanConf] = NewFile("[core]\n"),
     !.broken = {"p", "s", "mirror"},
     !.stamps = FALSE]

\* ------------------------------------------------------------------------
\* The pipeline: scripts that declare resources of every kind, plan and
\* apply them with the process-wide executor, on every platform
\* ------------------------------------------------------------------------
MaxDecls == 2

Decls ==
  { File("/f", "x", "file", "644"),
    File("/f", Nil, "file", Nil),
    File("/g", Nil, "directory", "755"),
    File("/f", Nil, "absent", Nil),
    Package("p", Nil, "present", <<>>),
    Package("p", "2.0", "present", <<>>),
    Package("tools", Nil, "absent", <<"p", "q">>),
    Service("s", "true", "true", <<>>, <<>>),
    Service("s", "false", Nil, <<>>, <<>>),
    Exec("e", "touch /f", "/f", Nil, Nil, FALSE),
    Exec("e", "touch /f", Nil, "test -e /f", Nil, FALSE),
    Exec("e", "touch /f", Nil, Nil, "test -e /g", FALSE),
    Exec("e", "touch /f", Nil, Nil, Nil, TRUE),
    Exec("e", "touch /f", Nil, "test -e /g", "test -e /f", TRUE),
    Repository("r", "add", "deb u", Nil, "present"),
    Repository("r", "add", "deb u", "t/ap", "absent"),
    Repository("r", "update", Nil, Nil, "present") }

Init == InitWith({Ubuntu, Fedora, Arch, MacOS, FreeBSD}, {"global"},
                 {EmptyHost, UsedHost, BrokenHost})

Next ==
  \/ \E d \in Decls : Construct(d, MaxDecls)
  \/ ExecutorPlan
  \/ ExecutorApply

Spec == Init /\ [][Next]_vars

\* ------------------------------------------------------------------------
\* The registry: scripts of mocks and files that redefine an id
\* ------------------------------------------------------------------------
RegDecls ==
  { MockResource("m", "v1"), File("/f", "x", "file", "644"), File("/f", "y", "file", "600") }

InitReg == InitWith({Ubuntu}, Executors, {EmptyHost})

NextReg ==
  \/ \E d \in RegDecls : Construct(d, MaxObjs)
  \/ \E oid \in 1..MaxObjs : Add(oid)
  \/ Clear
  \/ NewRun
  \/ ExecutorPlan

SpecReg == InitReg /\ [][NextReg]_vars

\* C1: adding a resource whose id is already registered (another object with
\* the same id) does not fail and replaces the old one in place: the list
\* keeps its length and its order of ids, the new object sits where the old
\* one was, and get(id) returns the new object.
C1_AddReplacesInPlace ==
  (last.op = "add" /\ last.dup /\ last.oid \notin Range(last.before)) =>
    LET id == Id(heap[last.oid].decl) IN
    /\ ~last.raised
    /\ Len(resources[driver]) = Len(last.before)
    /\ IdsOf(heap, resources[driver]) = IdsOf(heap, last.before)
    /\ \A i \in 1..Len(last.before) :
         Id(heap[last.before[i]].decl) = id => resources[driver][i] = last.oid
    /\ ExecutorGet(registry[driver], id) = last.oid

\* The latest constructor call of this run for the id of defs[j]
IsLatestDef(j) ==
  \A k \in 1..Len(defs) : Id(defs[k].decl) = Id(defs[j].decl) => k <= j

\* C2: when a self-registering resource id is defined twice in one run and
\* the id is registered with the executor, plan() yields one plan for the id,
\* computed from the desired state of the latest definition.
C2_PlanUsesLatestDefinition ==
  last.op = "plan" =>
    \A i, j \in 1..Len(defs) :
      LET id == Id(defs[j].decl) IN
      ( /\ i < j
        /\ Id(defs[i].decl) = id
        /\ IsLatestDef(j)
        /\ SelfRegisters(defs[j].decl)
        /\ id \in DOMAIN registry[driver] ) =>
      /\ id \in DOMAIN planResult.plans
      /\ heap[registry[driver][id]].decl = defs[j].decl
      /\ planResult.plans[id] =
           ResourcePlan(heap[registry[driver][id]].actual, Desired(defs[j].decl).st)

\* C3: for a resource whose apply succeeded, the plan computed immediately
\* after the apply (same declaration, nothing else touching the host) has
\* action none.
C3_PlanAfterApplyIsNone ==
  (last.op = "plan" /\ last.prev = "apply") =>
    \A id \in Range(applyResult.changed) :
      id \in DOMAIN planResult.plans => planResult.plans[id].action = "none"

\* C4: every plan produced by Resource.plan has action none if and only if
\* its change list is empty.
C4_NoneIffNoChanges ==
  \A id \in DOMAIN planResult.plans :
    planResult.plans[id].action = "none" <=> planResult.plans[id].changes = <<>>

\* C6: planning is read-only.  A step of Executor.plan leaves the host as it
\* was, every call it makes through the transport is one that changes
\* nothing, the resource list and the index of the executor are unchanged,
\* and a plan that directly follows a plan yields the same plans.
ReadOnly(tr, t) ==
  \A i \in 1..Len(tr) :
    tr[i][1] \in {"run_shell", "run_command", "write_file", "read_file", "file_exists"}
      => tr[i][1] # "write_file" /\ Effect(tr[i], t) = t

AttrValues == {Nil, "a", "b"}

\* The dictionaries with exists first, at most one of k1 and k2 left out,
\* and the attributes in either order
Dicts ==
  LET e  == {<<"exists", "true">>, <<"exists", "false">>}
      k1 == {<<"k1", v>> : v \in AttrValues}
      k2 == {<<"k2", v>> : v \in AttrValues}
  IN  {<<x>> : x \in e}
        \cup {<<x, y>> : x \in e, y \in k1 \cup k2}
        \cup {<<x, y, z>> : x \in e, y \in k1, z \in k2}
        \cup {<<x, z, y>> : x \in e, y \in k1, z \in k2}
        \cup {<<y, x>> : x \in e, y \in k1}

FnObject(a, d) == [decl |-> MockResource("m", Nil), actual |-> a, desired |-> d]

InitFn == InitWith({Ubuntu}, {"local"}, {EmptyHost})

\* The object is built and registered with its two states in place
BuildFn(a, d) ==
  /\ heap = <<>>
  /\ heap' = <<FnObject(a, d)>>
  /\ defs' = <<[decl |-> MockResource("m", Nil), oid |-> 1]>>
  /\ resources' = [resources EXCEPT ![driver] = <<1>>]
  /\ registry' = [registry EXCEPT ![driver] = ("mock:m" :> 1)]
  /\ last' = Last("construct", 1, FALSE, FALSE, <<>>)
  /\ UNCHANGED <<platform, driver, target, planResult, applyResult, trace,
               enable_state, store, drift, saved>>

\* resource.plan(platform), after check and desired_state have returned
PlanFn ==
  /\ heap # <<>>
  /\ last.op # "plan"
  /\ planResult' =
       [plans |-> ("mock:m" :> ResourcePlan(heap[1].actual, heap[1].desired)), errors |-> <<>>]
  /\ last' = Last("plan", 1, FALSE, FALSE, resources[driver])
  /\ UNCHANGED <<platform, driver, heap, defs, resources, registry, target, applyResult, trace,
               enable_state, store, drift, saved>>

NextFn ==
  \/ \E a \in Dicts, d \in Dicts : BuildFn(a, d)
  \/ PlanFn

SpecFn == InitFn /\ [][NextFn]_vars

\* The reference algorithm, on the attributes as sets
AttrsOf(dict) == {dict[i][1] : i \in 1..Len(dict)} \ {"exists"}

RefChanges(actual, desired) ==
  LET a == Get(actual, "exists") = "true"
      d == Get(desired, "exists") = "true"
  IN  IF ~a /\ d THEN {<<k, Nil, Get(desired, k)>> : k \in AttrsOf(desired)}
      ELSE IF a /\ ~d THEN {<<k, Get(actual, k), Nil>> : k \in AttrsOf(actual)}
      ELSE IF ~a /\ ~d THEN {}
      ELSE {<<k, Get(actual, k), Get(desired, k)>> :
              k \in {x \in AttrsOf(desired) : Get(actual, x) # Get(desired, x)}}

RefAction(actual, desired) ==
  LET a == Get(actual, "exists") = "true"
      d == Get(desired, "exists") = "true"
  IN  IF ~a /\ d THEN "create"
      ELSE IF a /\ ~d THEN "delete"
      ELSE IF ~a /\ ~d THEN "none"
      ELSE IF RefChanges(actual, desired) # {} THEN "update" ELSE "none"

\* C5: Resource.plan equals the reference algorithm on every pair of an
\* observed and a desired state: the same action, and exactly the changes of
\* the reference, each once.
C5_PlanEqualsReference ==
  (last.op = "plan" /\ heap # <<>>) =>
    LET p == planResult.plans["mock:m"]
        a == heap[1].actual
        d == heap[1].desired
    IN  /\ p.action = RefAction(a, d)
        /\ Range(p.changes) = RefChanges(a, d)
        /\ Len(p.changes) = Cardinality(RefChanges(a, d))

C5_Witness ==
  /\ last.op = "plan"
  /\ heap # <<>>
  /\ Len(heap[1].desired) = 3
  /\ planResult.plans["mock:m"].action = "update"
  /\ Len(planResult.plans["mock:m"].changes) = 1

\* ------------------------------------------------------------------------
\* Triggers: scripts of files and of services that reload or restart on them
\* ------------------------------------------------------------------------
MaxTrig == 3

TrigDecls ==
  { File("/f", "x", "file", "644"),
    File("/g", "y", "file", Nil),
    Service("s", "true", Nil, <<"file:/f">>, <<"file:/g">>),
    Service("w", Nil, Nil, <<"file:/f">>, <<"file:/f">>) }

\* Both services running; /g a directory, so that a file cannot be written
\* there; the service s failing to start, restart and reload
RunningHost == [EmptyHost EXCEPT !.running = {"s", "w"}, !.files["/f"] = NewFile("x")]

DirHost == [EmptyHost EXCEPT !.running = {"w"}, !.files["/g"] = NewDir]

FailingHost == [EmptyHost EXCEPT !.running = {"s", "w"}, !.broken = {"s"}]

InitTrig == InitWith({Ubuntu, MacOS}, {"global"}, {RunningHost, DirHost, FailingHost})

NextTrig ==
  \/ \E d \in TrigDecls : Construct(d, MaxTrig)
  \/ ExecutorPlan
  \/ ExecutorApply

SpecTrig == InitTrig /\ [][NextTrig]_vars

\* The ids of the events of one kind in a trace, in order
RECURSIVE Events(_, _)
Events(tr, kind) ==
  IF tr = <<>> THEN <<>>
  ELSE (IF Head(tr)[1] = kind THEN <<Head(tr)[2]>> ELSE <<>>) \o Events(Tail(tr), kind)

\* The positions in a trace of the events of some kinds
Positions(tr, kinds) == {i \in 1..Len(tr) : tr[i][1] \in kinds}

\* Where an id stands in the resource list of the executor
PositionOf(id) ==
  CHOOSE i \in 1..Len(resources[driver]) : Id(heap[resources[driver][i]].decl) = id

Increasing(ids) ==
  \A i, j \in 1..Len(ids) : i < j => PositionOf(ids[i]) < PositionOf(ids[j])

\* C7: apply visits the resources in the order in which they were added, and
\* the changed-resources list of the result is, in that order, the resources
\* whose apply succeeded.
C7_ApplyInAddOrder ==
  last.op = "apply" =>
    /\ Increasing(Events(trace, "apply"))
    /\ applyResult.changed = Events(trace, "applied")
    /\ Increasing(applyResult.changed)
    /\ \A id \in Range(Events(trace, "apply")) :
         id \in Range(applyResult.changed) <=> id \notin Range(Events(trace, "failed"))

C7_Witness ==
  /\ last.op = "apply"
  /\ applyResult.returned
  /\ Len(applyResult.changed) >= 2
  /\ Events(trace, "failed") # <<>>

\* C8: apply invokes a resource's apply only if the resource has a plan in
\* the plan result and that plan has changes.
C8_ApplyOnlyPlannedChanges ==
  last.op = "apply" =>
    \A id \in Range(Events(trace, "apply")) :
      /\ id \in DOMAIN planResult.plans
      /\ planResult.plans[id].action # "none"
      /\ planResult.plans[id].changes # <<>>

C8_Witness ==
  /\ last.op = "apply"
  /\ Events(trace, "apply") # <<>>
  /\ \E id \in DOMAIN registry[driver] : id \notin DOMAIN planResult.plans
  /\ \E id \in DOMAIN planResult.plans : planResult.plans[id].action = "none"

\* C9: within one apply every restart or reload comes after the last
\* resource-level apply, and each service is triggered at most once.
C9_TriggersLastAndOnce ==
  last.op = "apply" =>
    /\ \A i \in Positions(trace, {"restart", "reload"}) :
         \A j \in Positions(trace, {"apply", "applied", "failed"}) : j < i
    /\ \A i, j \in Positions(trace, {"restart", "reload"}) :
         trace[i][2] = trace[j][2] => i = j

C9_Witness ==
  /\ last.op = "apply"
  /\ Events(trace, "restart") # <<>>
  /\ Events(trace, "reload") # <<>>
  /\ Len(applyResult.changed) >= 2

\* How often an id occurs in a sequence of ids
Count(ids, id) == Cardinality({i \in 1..Len(ids) : ids[i] = id})

\* C10: a service whose restart_on and reload_on both name a resource changed
\* in this apply gets exactly one restart call and no reload call.
C10_RestartOnceNoReload ==
  last.op = "apply" =>
    \A oid \in Range(resources[driver]) :
      LET d == heap[oid].decl IN
      ( /\ d.kind = "svc"
        /\ should_restart(d, applyResult.changed)
        /\ should_reload(d, applyResult.changed) ) =>
      /\ Count(Events(trace, "restart"), Id(d)) = 1
      /\ Count(Events(trace, "reload"), Id(d)) = 0

\* ------------------------------------------------------------------------
\* State tracking: scripts that declare files, a service and a package and
\* apply them, with state tracking on or off, on a database that can or
\* cannot be written
\* ------------------------------------------------------------------------
MaxState == 3

StateDecls ==
  { File("/f", "x", "file", "644"),
    File("/g", "y", "file", Nil),
    Service("s", "true", Nil, <<"file:/f">>, <<>>),
    Package("p", Nil, "present", <<>>) }

InitState ==
  /\ InitBase({Ubuntu, FreeBSD}, {"global"}, {DirHost, FailingHost})
  /\ store \in {EmptyStore(TRUE), EmptyStore(FALSE)}

\* A script enables state tracking before it declares anything
NextState ==
  \/ \E d \in StateDecls : Construct(d, MaxState)
  \/ heap = <<>> /\ EnableStateTracking
  \/ ExecutorPlan
  \/ ExecutorApply

SpecState == InitState /\ [][NextState]_vars

\* ------------------------------------------------------------------------
\* Drift: runs that apply a file, a service and a package with state
\* tracking on, edits made to the host from outside, and drift checks
\* ------------------------------------------------------------------------
MaxDrift == 2

DriftDecls ==
  { File("/f", "x", "file", "644"),
    Service("s", "true", Nil, <<>>, <<>>),
    Package("p", Nil, "present", <<>>) }

InitDrift == InitWith({Ubuntu}, {"global"}, {EmptyHost})

\* Somebody other than cook overwrites or removes a file cook has stored a
\* state of
ExternalEdit ==
  /\ last.op \in {"apply", "reset"}
  /\ HasRow(store, "file:/f")
  /\ target.files["/f"].type = "file"
  /\ target.files["/f"].content # "two"
  /\ \E f \in {[target.files["/f"] EXCEPT !.content = "two"], AbsentFile} :
        target' = [target EXCEPT !.files["/f"] = f]
  /\ last' = Last("edit", 0, FALSE, FALSE, resources[driver])
  /\ UNCHANGED <<platform, driver, heap, defs, resources, registry, planResult, applyResult,
                 trace, enable_state, store, drift, saved>>

StoredIds == {store.resources[i].id : i \in 1..Len(store.resources)}

\* A script enables state tracking before it declares anything, and may
\* check for drift after its apply; a run of the drift detector alone
\* checks stored resources; the next run starts after an apply or a drift
\* check, and the host is edited after an apply or between runs
NextDrift ==
  \/ \E d \in DriftDecls :
       enable_state[driver] /\ last.op # "drift" /\ Construct(d, MaxDrift)
  \/ heap = <<>> /\ EnableStateTracking
  \/ enable_state[driver] /\ last.op # "drift" /\ ExecutorPlan
  \/ enable_state[driver] /\ last.op # "drift" /\ ExecutorApply
  \/ last.op \in {"apply", "drift"} /\ NewRun
  \/ ExternalEdit
  \/ \E id \in StoredIds :
       /\ (heap = <<>> /\ ~enable_state[driver]) \/ last.op \in {"apply", "edit", "drift"}
       /\ CheckResource(id)

SpecDrift == InitDrift /\ [][NextDrift]_vars

\* The services registered with the executor the script drives
Services == {heap[oid].decl : oid \in {o \in Range(resources[driver]) : heap[o].decl.kind = "svc"}}

\* C11: in an apply a service is restarted exactly when its restart_on list
\* names a resource whose apply succeeded in this pass, and reloaded exactly
\* when it is not restarted and its reload_on list names such a resource; a
\* resource that failed or had no changes fires nothing.
C11_TriggersIffChanged ==
  last.op = "apply" =>
    \A d \in Services :
      LET ok       == Range(Events(trace, "applied"))
          restarts == Range(d.restart_on) \cap ok # {}
          reloads  == Range(d.reload_on) \cap ok # {}
      IN  /\ Id(d) \in Range(Events(trace, "restart")) <=> restarts
          /\ Id(d) \in Range(Events(trace, "reload")) <=> (~restarts /\ reloads)

\* Without an exception in the trigger pass the triggers are as C11 says
C11_WhenTriggersReturn == applyResult.phase # "triggers" => C11_TriggersIffChanged

\* The ids of the resources registered with the executor the script drives
RegisteredIds == Range(IdsOf(heap, resources[driver]))

\* C12: a failure of one resource in plan or in apply is recorded as one
\* error of the result and does not end the pass: every registered resource
\* is still checked and planned, and every resource whose plan has changes
\* is still applied.
C12_FailureDoesNotAbort ==
  /\ last.op = "plan" =>
        \A id \in RegisteredIds :
          /\ Count(Events(trace, "check"), id) = 1
          /\ id \in DOMAIN planResult.plans <=> Count(planResult.errors, id) = 0
          /\ Count(planResult.errors, id) <= 1
  /\ last.op = "apply" =>
        \A id \in RegisteredIds :
          /\ ( /\ id \in DOMAIN planResult.plans
               /\ planResult.plans[id].action # "none"
               /\ planResult.plans[id].changes # <<>> ) =>
                Count(Events(trace, "apply"), id) = 1
          /\ id \in Range(Events(trace, "failed")) => Count(applyResult.errors, id) = 1
          /\ Count(applyResult.errors, id) <= 1

\* A plan error and an apply failure, each followed by a resource that is
\* planned and applied
C12_Witness ==
  /\ last.op = "apply"
  /\ Len(resources[driver]) = 3
  /\ Id(heap[resources[driver][1]].decl) \in Range(planResult.errors)
  /\ Id(heap[resources[driver][2]].decl) \in Range(Events(trace, "failed"))
  /\ Id(heap[resources[driver][3]].decl) \in Range(Events(trace, "applied"))
  /\ Len(applyResult.errors) = 1

\* The services a trigger pass over the changed list has to restart or reload
Triggered(changed) ==
  {Id(d) : d \in {x \in Services : should_restart(x, changed) \/ should_reload(x, changed)}}

\* C13: when a restart or a reload fails during the trigger pass,
\* Executor.apply still returns its ApplyResult, the services that follow
\* are still restarted or reloaded, and the state is still saved when
\* tracking is enabled.
C13_TriggerFailureContained ==
  (last.op = "apply" /\ applyResult.phase = "triggers") =>
    /\ applyResult.returned
    /\ Triggered(applyResult.changed) \subseteq
          Range(Events(trace, "restart")) \cup Range(Events(trace, "reload"))
    /\ enable_state[driver] => Events(trace, "save") # <<>>

\* C14: when the store fails while the state is saved, Executor.apply still
\* returns the ApplyResult of the resource pass.
C14_StoreFailureContained ==
  (last.op = "apply" /\ applyResult.phase = "save") => applyResult.returned

\* The status the row of a resource is to have after an apply
ExpectedStatus(id) ==
  IF id \in Range(applyResult.changed) THEN "success"
  ELSE IF id \in Range(Events(trace, "failed")) THEN "failed"
  ELSE "unchanged"

\* C15: the row saved for a resource after an apply has status success if
\* the resource was changed, failed if its apply failed, and unchanged if it
\* needed no change.
C15_PersistedStatus ==
  (last.op = "apply" /\ enable_state[driver]) =>
    \A id \in Range(Events(trace, "save")) :
      get_resource(store, id).status = ExpectedStatus(id)

\* C16: after an apply with tracking enabled that returned, the store holds
\* one row for every registered resource, and the apply appended exactly one
\* history entry for each changed id and none for any other.
C16_RowPerResource ==
  (last.op = "apply" /\ enable_state[driver] /\ applyResult.returned) =>
    \A id \in RegisteredIds :
      /\ Cardinality({i \in 1..Len(store.resources) : store.resources[i].id = id}) = 1
      /\ Count(Events(trace, "history"), id) =
            (IF id \in Range(applyResult.changed) THEN 1 ELSE 0)

\* C17: over applies and drift checks the history log only grows, its
\* entries staying as they are, and the resources table never holds two rows
\* with the same id.
C17_HistoryGrowsRowsUnique ==
  /\ [](\A i, j \in 1..Len(store.resources) :
          store.resources[i].id = store.resources[j].id => i = j)
  /\ [][/\ Len(store.history') >= Len(store.history)
        /\ SubSeq(store.history', 1, Len(store.history)) = store.history]_vars

\* A second apply and a drift check have both replaced a stored row, and
\* the log holds entries
C17_Witness ==
  /\ store.clock = 2
  /\ store.history # <<>>
  /\ \E i \in 1..Len(store.resources) :
        store.resources[i].status = "drift" /\ store.resources[i].applied_at = isoformat(1)

\* ------------------------------------------------------------------------
\* The store on its own: callers saving ResourceStates of their making
\* ------------------------------------------------------------------------
\* The values of a state dict: None, strings, a list, a tuple
StoreValues == {Nil, "x", "true", "644", PyList, PyTuple}

StoreDicts == {<<>>} \cup {<<<<"content", v>>>> : v \in StoreValues}

StoreStates ==
  {ResourceState(id, "file", des, act, at, status) :
     id \in {"file:/f", "file:/g"}, des \in {<<>>, <<<<"content", "x">>>>},
     act \in StoreDicts, at \in {0, MaxClock}, status \in {"success", "drift"}}

\* Store.save_resource(s), called with a ResourceState s
StoreSave(s) ==
  /\ store' = save_resource(store, s)
  /\ saved' = s
  /\ last' = Last("save", 0, FALSE, HasRow(store, s.id), <<>>)
  /\ UNCHANGED <<platform, driver, heap, defs, resources, registry, target, planResult,
                 applyResult, trace, enable_state, drift>>

InitStore == InitWith({Ubuntu}, {"global"}, {EmptyHost})

NextStore == \E s \in StoreStates : StoreSave(s)

SpecStore == InitStore /\ [][NextStore]_vars

\* Every value of the two state dicts is one that JSON has: None, a string,
\* a number, a boolean, a list
JsonNative(s) ==
  /\ \A i \in 1..Len(s.desired_state) : s.desired_state[i][2] # PyTuple
  /\ \A i \in 1..Len(s.actual_state)  : s.actual_state[i][2] # PyTuple

DiffFields(stored, fresh) ==
  {k \in ({stored[i][1] : i \in 1..Len(stored)} \cup {fresh[i][1] : i \in 1..Len(fresh)})
          \ {"exists"} :
     Get(stored, k) # Get(fresh, k)}

DifferencesAre(differences, stored, fresh) ==
  /\ {differences[i][1] : i \in 1..Len(differences)} = DiffFields(stored, fresh)
  /\ Len(differences) = Cardinality(DiffFields(stored, fresh))
  /\ \A i \in 1..Len(differences) :
        /\ differences[i][2] = Get(stored, differences[i][1])
        /\ differences[i][3] = Get(fresh, differences[i][1])

\* The state a fresh check of the stored resource gives on the host
FreshState(state) == Check(LoadDecl(state), target, platform).st

\* C19: the differences reported for a stored resource name exactly the
\* fields, exists aside, whose stored and freshly checked values differ (a
\* missing field counting as None), each with expected = the stored value
\* and actual = the fresh value.
C19_DifferencesExact ==
  (last.op = "drift" /\ drift.found) =>
    DifferencesAre(drift.differences, get_resource(store, drift.id).actual_state,
                   FreshState(get_resource(store, drift.id)))

\* The content of a stored file was edited from x to two and the drift
\* check reports it
C19_Witness ==
  /\ last.op = "drift" /\ drift.found
  /\ <<"content", "x", "two">> \in Range(drift.differences)
  /\ Len(drift.differences) < Len(get_resource(store, drift.id).actual_state) - 1

\* What a drift check may do to the row of the resource it has checked
DriftRowStep(before, after, differs) ==
  /\ differs => after.status = "drift"
  /\ ~differs => store' = store
  /\ [after EXCEPT !.status = before.status] = before

\* C20: check_resource gives the stored record the status drift exactly
\* when a compared field differs; when none differs the record stays as it
\* was; in both cases every other field of the record, every other record
\* and the history stay as they were.
C20_DriftStatusOnly ==
  [][last'.op = "drift" =>
       IF drift'.found
       THEN /\ DriftRowStep(get_resource(store, drift'.id), get_resource(store', drift'.id),
                            DiffFields(get_resource(store, drift'.id).actual_state,
                                       FreshState(get_resource(store, drift'.id))) # {})
            /\ RowsWithout(store'.resources, drift'.id) = RowsWithout(store.resources, drift'.id)
            /\ store'.history = store.history
       ELSE store' = store]_vars

\* A drift check has marked the row of one resource and left the row of
\* another, checked before and found as stored, as it was
C20_Witness ==
  /\ last.op = "drift" /\ last.prev = "drift"
  /\ drift.found /\ drift.drifted
  /\ get_resource(store, drift.id).status = "drift"
  /\ \E i \in 1..Len(store.resources) : store.resources[i].status = "success"

\* ------------------------------------------------------------------------
\* cook check-drift: runs with state tracking on, then check_all, in the
\* process of the run or in a process of its own
\* ------------------------------------------------------------------------
MaxAll == 2

AllDecls ==
  { File("/g", "y", "file", Nil),
    Service("s", "true", Nil, <<>>, <<>>),
    Exec("e", "touch /f", "/f", Nil, Nil, FALSE) }

InitAll == InitWith({Ubuntu}, {"global"}, {EmptyHost})

NextAll ==
  \/ \E d \in AllDecls :
       enable_state[driver] /\ last.op # "drift_all" /\ Construct(d, MaxAll)
  \/ heap = <<>> /\ EnableStateTracking
  \/ enable_state[driver] /\ last.op # "drift_all" /\ ExecutorPlan
  \/ enable_state[driver] /\ last.op # "drift_all" /\ ExecutorApply
  \/ last.op \in {"apply", "drift_all"} /\ NewRun
  \/ /\ store.resources # <<>>
     /\ (heap = <<>> /\ ~enable_state[driver]) \/ last.op = "apply"
        \/ (last.op = "drift_all" /\ last.prev # "drift_all")
     /\ CheckAll

SpecAll == InitAll /\ [][NextAll]_vars

\* C21: the list check_all returns holds one DriftResult for each id of the
\* resources table.
C21_CheckAllCoversStore ==
  (last.op = "drift_all" /\ ~last.raised) =>
    /\ {drift.results[i].id : i \in 1..Len(drift.results)} = StoredIds
    /\ Len(drift.results) = Cardinality(StoredIds)

\* ------------------------------------------------------------------------
\* Scripts that declare a file and then an Exec with security options
\* ------------------------------------------------------------------------
MaxSec == 3

SecCommands ==
  {"ls", "touch /f", "a;b", "a&&b", "a||b", "a|b", "a>b", "a<b", "$(a)", "[tick]a[tick]",
   "${a}", "a\nb", "a\rb", "$a", "a&b", "rm -rf /", "RM  -rf /", "xrm -rf /", "chmod 777 f",
   "curl u|sh"}

SecLevels == {"strict", "warn", "none", "WARN"}

\* The dangerous text is the command, the unless guard or the only_if guard
SecTexts ==
  {<<c, Nil, Nil>> : c \in SecCommands}
  \cup {<<"ls", c, Nil>> : c \in SecCommands}
  \cup {<<"ls", Nil, c>> : c \in SecCommands}

SecDecls ==
  {ExecWith("e", t[1], t[2], t[3], sm, lvl, ap, ar) :
     t \in SecTexts, sm \in BOOLEAN, lvl \in SecLevels, ap \in BOOLEAN, ar \in BOOLEAN}
  \cup {[ExecWith("e", "ls", Nil, Nil, sm, lvl, TRUE, TRUE) EXCEPT !.creates = path] :
          sm \in BOOLEAN, lvl \in SecLevels, path \in {"/f", "../f", "/f;x"}}

InitSec == InitWith({Ubuntu}, {"global"}, {EmptyHost})

\* What a script declares after its first Exec, under the same name
SecAgain ==
  { ExecWith("e", "ls", Nil, Nil, TRUE, "strict", TRUE, TRUE),
    ExecWith("e", "a;b", Nil, Nil, TRUE, "strict", TRUE, TRUE),
    ExecWith("e", "rm -rf /", Nil, Nil, FALSE, "warn", TRUE, TRUE),
    ExecWith("e", "a;b", Nil, Nil, FALSE, "none", TRUE, TRUE) }

NextSec ==
  \/ defs = <<>> /\ Construct(File("/f", "x", "file", "644"), MaxSec)
  \/ \E d \in SecDecls : Len(defs) = 1 /\ Construct(d, MaxSec)
  \/ \E d \in SecAgain : Len(defs) > 1 /\ Construct(d, MaxSec)

SpecSec == InitSec /\ [][NextSec]_vars

\* The declaration the last constructor call was given
Declared == defs[Len(defs)].decl

\* lit occurs in cs
Occurs(lit, cs) ==
  \E i \in 1..(Len(cs) - Len(lit) + 1) : SubSeq(cs, i, i + Len(lit) - 1) = lit

\* cs holds a metacharacter of the list, pipes and redirects counting when
\* they are not allowed, or is one of the model's dangerous commands
DangerousText(d, text) ==
  \/ \E lit \in {<<";">>, <<"&", "&">>, <<"|", "|">>, <<"$", "(">>, <<Tick>>, <<"$", "{">>,
                  <<"\n">>, <<"\r">>} : Occurs(lit, Chars(text))
  \/ ~d.allow_pipes /\ Occurs(<<"|">>, Chars(text))
  \/ ~d.allow_redirects /\ (Occurs(<<">">>, Chars(text)) \/ Occurs(<<"<">>, Chars(text)))
  \/ text \in {"rm -rf /", "RM  -rf /", "chmod 777 f", "curl u|sh"}

Dangerous(d) ==
  \E text \in {d.command, d.unless, d.only_if} \ {Nil} : DangerousText(d, text)

StrictMode(d) == d.safe_mode \/ d.security_level \notin {"warn", "none", "WARN"}

\* The constructor call just made raised and left the executor and the
\* objects as they were
RaisedUnregistered ==
  /\ last'.raised
  /\ resources' = resources
  /\ registry' = registry
  /\ heap' = heap

\* The constructor call just made returned and registered the new object
\* at the end of the resource list
ReturnedRegistered ==
  /\ ~last'.raised
  /\ resources'["global"] = Append(resources["global"], last'.oid)
  /\ registry'["global"] = (Id(defs'[Len(defs')].decl) :> last'.oid) @@ registry["global"]

\* C22: constructing an Exec in strict mode whose command, unless or
\* only_if holds a pattern of the dangerous list raises before registration:
\* the resource list and the index are as before.
C22_StrictRejectsDangerous ==
  [][(/\ last'.op = "construct"
      /\ defs'[Len(defs')].decl.kind = "exec"
      /\ StrictMode(defs'[Len(defs')].decl)
      /\ Dangerous(defs'[Len(defs')].decl)) => RaisedUnregistered]_vars

\* An Exec whose unless guard chains commands was refused, the executor
\* holding the file declared before it
C22_Witness ==
  /\ last.op = "construct" /\ last.raised /\ ~last.dup
  /\ Declared.kind = "exec" /\ Declared.unless = "a;b" /\ Declared.security_level = "strict"
  /\ Len(resources["global"]) = 1

\* C23: with safe_mode true the level is strict whatever security_level was
\* passed: a construction with a security finding raises and registers
\* nothing.
C23_SafeModeIsStrict ==
  [][(/\ last'.op = "construct"
      /\ defs'[Len(defs')].decl.kind = "exec"
      /\ defs'[Len(defs')].decl.safe_mode
      /\ SecurityIssues(defs'[Len(defs')].decl) # {}) => RaisedUnregistered]_vars

\* An Exec with safe_mode true and security_level none was refused
C23_Witness ==
  /\ last.op = "construct" /\ last.raised /\ ~last.dup
  /\ Declared.kind = "exec" /\ Declared.safe_mode /\ Declared.security_level = "none"
  /\ Declared.command = "$a"
  /\ Len(resources["global"]) = 1

\* C24: with safe_mode false an Exec with security findings is registered:
\* at the level warn the findings are logged and nothing is raised, at the
\* level none nothing is validated, and nothing logged as a finding.
C24_WarnAndNoneRegister ==
  [][(/\ last'.op = "construct"
      /\ defs'[Len(defs')].decl.kind = "exec"
      /\ ~defs'[Len(defs')].decl.safe_mode
      /\ defs'[Len(defs')].decl.security_level \in {"warn", "WARN", "none"}
      /\ Dangerous(defs'[Len(defs')].decl)) =>
       /\ ReturnedRegistered
       /\ (<<"warning", "exec:e">> \in Range(SubSeq(trace', Len(trace) + 1, Len(trace')))) <=>
            (defs'[Len(defs')].decl.security_level \in {"warn", "WARN"})]_vars

\* A guard of the Exec says skip on the host t: the creates path exists, the
\* unless command exits 0, or the only_if command exits non-zero
GuardSkips(d, t) ==
  \/ d.creates # Nil /\ file_exists(t, d.creates)
  \/ d.unless # Nil /\ ExitCode(Sh(d.unless), t) = 0
  \/ d.only_if # Nil /\ ExitCode(Sh(d.only_if), t) # 0

ExecGuardsHold(obj, plan, skip) ==
  /\ Get(obj.actual, "should_run") = B(~skip)
  /\ skip => (plan.action = "none" /\ plan.changes = <<>>)
  /\ ~skip => plan.action = "update"

\* C25: for an Exec not in dry_run, check reports should_run false exactly
\* when a guard says skip, and then the plan has no change; otherwise
\* should_run is true and the plan is an update.
C25_ExecGuards ==
  last.op = "plan" =>
    \A oid \in Range(resources[driver]) :
      (/\ heap[oid].decl.kind = "exec"
       /\ ~heap[oid].decl.dry_run
       /\ Id(heap[oid].decl) \in DOMAIN planResult.plans) =>
        ExecGuardsHold(heap[oid], planResult.plans[Id(heap[oid].decl)],
                       GuardSkips(heap[oid].decl, target))

\* An Exec whose only_if command fails was planned with no change
C25_Witness ==
  /\ last.op = "plan"
  /\ \E oid \in Range(resources[driver]) :
        /\ heap[oid].decl.kind = "exec"
        /\ heap[oid].decl.only_if # Nil
        /\ ExitCode(Sh(heap[oid].decl.only_if), target) # 0
        /\ Id(heap[oid].decl) \in DOMAIN planResult.plans
        /\ planResult.plans[Id(heap[oid].decl)].action = "none"

\* The shell commands an Exec declaration can send to the transport
ExecCommands(d) == {Sh(c) : c \in {d.command, d.unless, d.only_if} \ {Nil}}

\* C26: for an Exec with dry_run set, neither the check of a plan runs the
\* unless or only_if command on the transport, nor does apply run the
\* command.
C26_DryRunRunsNothing ==
  last.op \in {"plan", "apply"} =>
    \A oid \in Range(resources[driver]) :
      (heap[oid].decl.kind = "exec" /\ heap[oid].decl.dry_run) =>
        ExecCommands(heap[oid].decl) \cap Range(trace) = {}

\* The apply of a dry_run Exec with both guards was called for its update
\* plan
C26_Witness ==
  /\ last.op = "apply"
  /\ <<"apply", "exec:e">> \in Range(trace)
  /\ <<"applied", "exec:e">> \in Range(trace)
  /\ \E oid \in Range(resources[driver]) :
        /\ heap[oid].decl.kind = "exec" /\ heap[oid].decl.dry_run
        /\ heap[oid].decl.unless # Nil /\ heap[oid].decl.only_if # Nil

\* ------------------------------------------------------------------------
\* Repositories: a script that adds a repository, plans and applies, and
\* declares the same repository again on a fresh executor
\* ------------------------------------------------------------------------
MaxRepo == 2

RepoDecls ==
  { Repository("r", "add", "deb u", "t/ap", "present"),
    File("/g", Nil, "directory", "755") }

\* reset_executor() followed by Executor(), in a script that keeps the
\* results its first run returned
ResetExecutor ==
  /\ heap # <<>>
  /\ heap' = <<>>
  /\ defs' = <<>>
  /\ resources' = [e \in Executors |-> <<>>]
  /\ registry'  = [e \in Executors |-> <<>>]
  /\ trace' = <<>>
  /\ last' = Last("reset", 0, FALSE, FALSE, <<>>)
  /\ UNCHANGED <<platform, driver, target, planResult, applyResult, enable_state,
                 store, drift, saved>>

InitRepo == InitWith({Ubuntu, Fedora, Arch, MacOS}, {"global"},
                     {EmptyHost, UsedHost, BrokenHost})

NextRepo ==
  \/ \E d \in RepoDecls : Construct(d, MaxRepo)
  \/ ExecutorPlan
  \/ ExecutorApply
  \/ last.op = "apply" /\ ResetExecutor

SpecRepo == InitRepo /\ [][NextRepo]_vars

\* The last apply changed the repository and reported no error
AddedSuccessfully ==
  /\ "repository:r" \in Range(applyResult.changed)
  /\ applyResult.errors = <<>>

\* C27: once the repository has been added successfully, the plan of the
\* same declaration on a fresh executor has no changes for it.
C27_AddIsIdempotent ==
  (last.op = "plan" /\ last.prev = "construct" /\ AddedSuccessfully
     /\ "repository:r" \in DOMAIN planResult.plans) =>
    ~has_changes(planResult.plans["repository:r"])

\* ------------------------------------------------------------------------
\* The package cache: scripts that refresh the cache, on hosts whose cache
\* marker is absent, unreadable, or of an age around the threshold
\* ------------------------------------------------------------------------
MaxCache == 2

CacheDecls ==
  { Repository("r", "update", Nil, Nil, "present"),
    File("/g", Nil, "directory", "755") }

CacheHosts ==
  {EmptyHost} \cup
  { [EmptyHost EXCEPT !.files[AptStamp] = NewFile(""), !.files[PacmanDb] = NewFile(""),
                      !.age = a, !.broken = b]
      : a \in {FreshSeconds - 1, FreshSeconds, FreshSeconds + 1},
        b \in {{}, {"stat"}, {"mirror"}} }

InitCache == InitWith({Ubuntu, Fedora, Arch, MacOS}, {"global"}, CacheHosts)

NextCache ==
  \/ \E d \in CacheDecls : Construct(d, MaxCache)
  \/ ExecutorPlan
  \/ ExecutorApply
  \/ last.op = "apply" /\ ResetExecutor

SpecCache == InitCache /\ [][NextCache]_vars

\* The marker of the package cache; dnf and brew keep none
Marker(pm) ==
  CASE pm = "apt" -> AptStamp
    [] pm = "pacman" -> PacmanDb
    [] OTHER -> Nil

\* The marker is missing, its age cannot be read, or it is older than an hour
CacheStale(pm, t) ==
  \/ Marker(pm) = Nil
  \/ t.files[Marker(pm)].type = "absent"
  \/ "stat" \in t.broken
  \/ t.age > 3600

RefreshCommand(pm) ==
  CASE pm = "apt"    -> <<"run_shell", "apt-get", "update">>
    [] pm = "dnf"    -> <<"run_command", "dnf", "check-update">>
    [] pm = "pacman" -> <<"run_command", "pacman", "-Sy">>
    [] pm = "brew"   -> <<"run_command", "brew", "update">>

\* The position of the last occurrence of e in the trace, 0 if there is none
LastIndexOf(e) ==
  IF e \in Range(trace)
  THEN CHOOSE i \in DOMAIN trace : trace[i] = e /\ \A j \in DOMAIN trace : j > i => trace[j] # e
  ELSE 0

MaxCtor == 3

CtorDecls ==
  { Repository("r", a, repo, tap, "present")
      : a \in {"add", "ADD", "update", "Update", "upgrade", "remove", "install"},
        repo \in {Nil, "deb u"}, tap \in {Nil, "t/ap"} }
  \cup { File("/f", "x", "file", "644") }

InitCtor == InitWith({Ubuntu}, {"global"}, {EmptyHost})

NextCtor == \E d \in CtorDecls : Construct(d, MaxCtor)

SpecCtor == InitCtor /\ [][NextCtor]_vars

\* C29: constructing a Repository with an unknown action, or with action
\* add and neither repo nor tap, raises a validation error before the
\* registration: the resource list and the index of the executor are as
\* before.
C29_InvalidRepositoryRejected ==
  [][(/\ last'.op = "construct"
      /\ defs'[Len(defs')].decl.kind = "repository"
      /\ \/ defs'[Len(defs')].decl.action \in {"remove", "install"}
         \/ /\ defs'[Len(defs')].decl.action \in {"add", "ADD"}
            /\ defs'[Len(defs')].decl.repo = Nil
            /\ defs'[Len(defs')].decl.tap = Nil)
       => (RaisedUnregistered /\ ~last'.dup)]_vars

\* An add without repo and tap was refused, the executor holding the
\* resources declared before it
C29_Witness ==
  /\ last.op = "construct" /\ last.raised /\ ~last.dup
  /\ Declared.kind = "repository" /\ Declared.action = "add"
  /\ Declared.repo = Nil /\ Declared.tap = Nil
  /\ Len(resources["global"]) = 2
  /\ last.before = resources["global"]

\* ------------------------------------------------------------------------
\* The transports  (cook/transport/local.py, cook/transport/ssh.py): calls
\* of write_file and read_file on a host with a directory /d
\* ------------------------------------------------------------------------
MaxCalls == 3

FsPaths == {"/d", "/d/f", "/f"}

Bytes == {"a", "b"}

\* LocalTransport, SSHTransport(sudo=False), SSHTransport(sudo=True)
Variants == {"local", "ssh", "ssh_sudo"}

\* Path(path).parent
ParentOf(path) == IF path = "/d/f" THEN "/d" ELSE "/"

IsDirectory(t, path) == path = "/" \/ t.files[path].type = "directory"

\* mkdir -p, whose exit code write_file does not look at
MkdirP(t, path) ==
  IF path # "/" /\ t.files[path].type = "absent" THEN [t EXCEPT !.files[path] = NewDir] ELSE t

\* open(path, "wb") and write: raises when the parent is not a directory or
\* the path is one
OpenWrite(t, path, content) ==
  IF ~IsDirectory(t, ParentOf(path)) \/ t.files[path].type = "directory"
  THEN [t |-> t, raised |-> TRUE]
  ELSE [t |-> [t EXCEPT !.files[path] =
                  IF @.type = "file" THEN [@ EXCEPT !.content = content] ELSE NewFile(content)],
        raised |-> FALSE]

\* mv of the temporary file, whose exit code write_file does not look at;
\* onto a directory it moves the file into it, under the temporary name
MoveTemp(t, path, content) ==
  IF IsDirectory(t, ParentOf(path)) /\ t.files[path].type # "directory"
  THEN [t EXCEPT !.files[path] = NewFile(content)]
  ELSE t

\* LocalTransport.write_file
LocalWriteFile(t, path, content) == OpenWrite(t, path, content)

\* SSHTransport.write_file
SSHWriteFile(t, sudo, path, content) ==
  IF sudo
  THEN [t |-> MoveTemp(MkdirP(t, ParentOf(path)), path, content), raised |-> FALSE]
  ELSE IF ParentOf(path) # "/" /\ t.files[ParentOf(path)].type = "absent"
       THEN OpenWrite(MkdirP(t, ParentOf(path)), path, content)
       ELSE OpenWrite(t, path, content)

write_file(variant, t, path, content) ==
  IF variant = "local" THEN LocalWriteFile(t, path, content)
  ELSE SSHWriteFile(t, variant = "ssh_sudo", path, content)

\* read_file of either transport: the bytes of the file, or an exception
read_file(t, path) ==
  IF t.files[path].type = "file"
  THEN [raised |-> FALSE, bytes |-> t.files[path].content]
  ELSE [raised |-> TRUE, bytes |-> Nil]

\* A script calls transport.write_file(path, content)
WriteFile(variant, path, content) ==
  /\ Len(trace) < MaxCalls
  /\ LET r == write_file(variant, target, path, content)
     IN  /\ target' = r.t
         /\ trace' = Append(trace, <<"write_file", variant, path, content>>)
         /\ last' = Last("write_file", 0, r.raised, FALSE, <<>>)
  /\ UNCHANGED <<platform, driver, heap, defs, resources, registry, planResult,
                 applyResult, enable_state, store, drift, saved>>

\* A script calls transport.read_file(path); the trace keeps what it returned
ReadFile(variant, path) ==
  /\ Len(trace) < MaxCalls
  /\ LET r == read_file(target, path)
     IN  /\ trace' = Append(trace, <<"read_file", variant, path, r.bytes>>)
         /\ last' = Last("read_file", 0, r.raised, FALSE, <<>>)
  /\ UNCHANGED <<platform, driver, heap, defs, resources, registry, target, planResult,
                 applyResult, enable_state, store, drift, saved>>

\* Hosts whose /d is missing, a directory (with or without the file in it)
\* or a plain file
FsHosts ==
  { [EmptyHost EXCEPT !.files = [p \in FsPaths |->
        CASE p = "/d"   -> d
          [] p = "/d/f" -> IF d = NewDir THEN f ELSE AbsentFile
          [] p = "/f"   -> f]]
      : d \in {AbsentFile, NewDir, NewFile("a")}, f \in {AbsentFile, NewFile("a")} }

InitTransport == InitBase({Ubuntu}, {"global"}, FsHosts) /\ store = EmptyStore(TRUE)

NextTransport ==
  \/ \E v \in Variants, p \in FsPaths, c \in Bytes : WriteFile(v, p, c)
  \/ \E v \in Variants, p \in FsPaths : ReadFile(v, p)

SpecTransport == InitTransport /\ [][NextTransport]_vars

\* The call the step just made
Called == trace'[Len(trace')]

\* C30: write_file creates the file or overwrites it, creating a missing
\* parent directory, with the local and the secure-shell transport alike:
\* when the parent directory of the path does not exist the call returns
\* normally, and read_file of the path then returns the bytes written.
C30_WriteCreatesParents ==
  [][(/\ last'.op = "write_file"
      /\ ParentOf(Called[3]) # "/"
      /\ target.files[ParentOf(Called[3])].type = "absent")
       => /\ ~last'.raised
          /\ read_file(target', Called[3]) = [raised |-> FALSE, bytes |-> Called[4]]]_vars

\* ------------------------------------------------------------------------
\* Failing mutations: scripts of files, packages, services and commands on
\* hosts where the commands on /g or on /f, the package p, the service s or
\* nothing fail
\* ------------------------------------------------------------------------
MaxFail == 2

FailDecls ==
  { File("/g", Nil, "directory", "755"),
    File("/g", Nil, "file", "644"),
    File("/g", Nil, "absent", Nil),
    Package("p", Nil, "present", <<>>),
    Package("p", Nil, "absent", <<>>),
    Service("s", "true", "true", <<>>, <<>>),
    Exec("e", "touch /f", Nil, Nil, Nil, FALSE) }

FailHosts ==
  { [h EXCEPT !.broken = b] :
      h \in {EmptyHost,
             [EmptyHost EXCEPT !.files["/g"] = [NewFile("old") EXCEPT !.mode = "600"],
                               !.pkgs["p"] = "0.9"]},
      b \in {{}, {"/g"}, {"/f"}, {"p"}, {"s"}} }

InitFail == InitWith({Ubuntu, MacOS}, {"global"}, FailHosts)

NextFail ==
  \/ \E d \in FailDecls : Construct(d, MaxFail)
  \/ ExecutorPlan
  \/ ExecutorApply

SpecFail == InitFail /\ [][NextFail]_vars

IsCommand(e) == e[1] \in {"run_shell", "run_command"}

\* The ids of the resources whose apply, in the calls ops[i..] made from the
\* host t, ran a command that exited non-zero; cur is the resource whose
\* apply is running, Nil outside of one
RECURSIVE FailedIn(_, _, _, _)
FailedIn(ops, i, t, cur) ==
  IF i > Len(ops) THEN {}
  ELSE LET e == ops[i] IN
       IF e[1] = "apply" THEN FailedIn(ops, i + 1, t, e[2])
       ELSE IF e[1] \in {"run_shell", "run_command", "write_file", "file_exists", "read_file"}
       THEN (IF cur # Nil /\ IsCommand(e) /\ ExitCode(e, t) # 0 THEN {cur} ELSE {})
            \cup FailedIn(ops, i + 1, Effect(e, t), cur)
       ELSE FailedIn(ops, i + 1, t, Nil)

\* C31: whenever a command issued by the apply of a File, Package, Service
\* or Exec exits non-zero, the executor records an error for the resource
\* and does not list it in changed_resources.
C31_FailedCommandFailsResource ==
  [][last'.op = "apply" =>
       \A id \in FailedIn(trace', 1, target, Nil) :
         /\ id \in Range(applyResult'.errors)
         /\ id \notin Range(applyResult'.changed)]_vars

\* The positions in the trace of the commands that restart or reload a
\* service
TriggerCommands ==
  {i \in 1..Len(trace) :
     /\ trace[i][1] = "run_command" /\ Len(trace[i]) >= 3
     /\ trace[i][2] = "systemctl" /\ trace[i][3] \in {"restart", "reload"}}

\* C32: in an apply with state tracking enabled, every write to the state
\* store (the save of a ResourceState, the append of a HistoryEntry) comes
\* after the last restart or reload of the trigger pass.
C32_PersistAfterTriggers ==
  last.op = "apply" =>
    \A i \in Positions(trace, {"save", "history"}) :
      \A j \in Positions(trace, {"restart", "reload"}) \cup TriggerCommands : j < i

\* A tracked apply that restarted a service and then saved rows and a
\* history entry
C32_Witness ==
  /\ last.op = "apply" /\ enable_state[driver]
  /\ TriggerCommands # {}
  /\ Positions(trace, {"save"}) # {}
  /\ Positions(trace, {"history"}) # {}

\* ------------------------------------------------------------------------
\* Services: scripts that declare a service with running and enabled given
\* or not, on hosts where it runs or not, is enabled or not
\* ------------------------------------------------------------------------
MaxSvc == 2

SvcDecls ==
  { Service("s", r, e, <<>>, ro) :
      r \in {Nil, "true", "false"}, e \in {Nil, "true", "false"},
      ro \in {<<>>, <<"file:/f">>} }
  \cup { File("/f", "x", "file", "644") }

SvcHosts ==
  { [EmptyHost EXCEPT !.running = r, !.enabled = e] : r \in {{}, {"s"}}, e \in {{}, {"s"}} }

InitSvc == InitWith({Ubuntu, MacOS, FreeBSD}, {"global"}, SvcHosts)

NextSvc ==
  \/ \E d \in SvcDecls : Construct(d, MaxSvc)
  \/ ExecutorPlan
  \/ ExecutorApply

SpecSvc == InitSvc /\ [][NextSvc]_vars

\* The calls the apply of the resource id made in the last Executor.apply:
\* those between its apply event and the event that ends it
ApplyCalls(id) ==
  IF <<"apply", id>> \notin Range(trace) THEN {}
  ELSE LET a == CHOOSE i \in DOMAIN trace : trace[i] = <<"apply", id>>
           e == CHOOSE i \in DOMAIN trace :
                  /\ i > a /\ trace[i] \in {<<"applied", id>>, <<"failed", id>>}
                  /\ \A k \in (a + 1)..(i - 1) : trace[k] \notin {<<"applied", id>>, <<"failed", id>>}
       IN  {trace[k] : k \in (a + 1)..(e - 1)}

\* The verbs of the service manager among a set of calls
Verbs(calls) == {c[3] : c \in {x \in calls : x[2] \in {"systemctl", "launchctl"}}}

\* The fields the plan of id changes
PlannedFields(id) ==
  IF id \in DOMAIN planResult.plans
  THEN {planResult.plans[id].changes[i][1] : i \in DOMAIN planResult.plans[id].changes}
  ELSE {}

\* C33: Service.apply starts or stops the service only for a running change
\* of the plan and enables or disables it only for an enabled change; when
\* running (enabled) is not specified the plan never has that field, and
\* apply never starts or stops (enables or disables) the service.
C33_ServiceAppliesPlannedFields ==
  \A oid \in Range(resources[driver]) :
    LET d == heap[oid].decl IN
    (d.kind = "svc" /\ last.op \in {"plan", "apply"}) =>
      /\ d.running = Nil => "running" \notin PlannedFields(Id(d))
      /\ d.enabled = Nil => "enabled" \notin PlannedFields(Id(d))
      /\ last.op = "apply" =>
           /\ Verbs(ApplyCalls(Id(d))) \cap {"start", "stop"} # {}
                => "running" \in PlannedFields(Id(d))
           /\ Verbs(ApplyCalls(Id(d))) \cap {"enable", "disable"} # {}
                => "enabled" \in PlannedFields(Id(d))
           /\ Verbs(ApplyCalls(Id(d))) \subseteq {"start", "stop", "enable", "disable"}

\* A stopped service declared with enabled only was enabled by its apply,
\* and not started
C33_Witness ==
  /\ last.op = "apply"
  /\ \E oid \in Range(resources[driver]) :
        /\ heap[oid].decl.kind = "svc"
        /\ heap[oid].decl.running = Nil /\ heap[oid].decl.enabled = "true"
  /\ Verbs(ApplyCalls("svc:s")) = {"enable"}
  /\ "s" \notin target.running


\* ------------------------------------------------------------------------
\* The resource list and the id index
\* ------------------------------------------------------------------------
RegistryAgrees(e) ==
  LET rs  == resources[e]
      ids == IdsOf(heap, rs)
  IN  /\ \A i, j \in 1..Len(rs) : ids[i] = ids[j] => i = j
      /\ DOMAIN registry[e] = Range(ids)
      /\ \A i \in 1..Len(rs) : ExecutorGet(registry[e], ids[i]) = rs[i]

\* C34: after any sequence of add and clear calls the ids of the resource
\* list are pairwise distinct, the index has exactly those ids as keys, and
\* get(id) returns the object the list holds under that id.
C34_ListAndIndexAgree == \A e \in DOMAIN resources : RegistryAgrees(e)

\* An add was refused for a duplicate id while two resources were
\* registered
C34_Witness ==
  /\ last.op = "add" /\ last.raised
  /\ Len(resources[driver]) = 2
  /\ Len(heap) > 2


\* ------------------------------------------------------------------------
\* Which resources an apply reaches
\* ------------------------------------------------------------------------
\* The ids of the registered resources whose plan has an action other than
\* none
PlannedToAct(pr, rs) ==
  {id \in Range(IdsOf(heap, rs)) :
     id \in DOMAIN pr.plans /\ pr.plans[id].action # "none"}

\* C35: Executor.apply invokes apply() of every registered resource whose
\* plan has action create, update or delete, a delete plan of a resource
\* whose observed state holds nothing but exists included.
C35_NoPlannedActionSkipped ==
  [][last'.op = "apply" =>
       \A id \in PlannedToAct(planResult, resources[driver]) :
         <<"apply", id>> \in Range(trace')]_vars


\* ------------------------------------------------------------------------
\* The outcomes an apply accounts for
\* ------------------------------------------------------------------------
\* The ids of the registered resources whose plan has changes
WithChanges(pr, rs) ==
  {id \in Range(IdsOf(heap, rs)) :
     id \in DOMAIN pr.plans /\ has_changes(pr.plans[id])}

\* ApplyResult.success
success(ar) == Len(ar.errors) = 0

Contentless(rs, t) ==
  {i \in 1..Len(rs) :
     LET d == heap[rs[i]].decl IN
     /\ d.kind = "file" /\ d.ensure = "file"
     /\ d.content = Nil /\ d.source = Nil
     /\ t.files[d.name].type = "file"}

HasChangeOf(plan, field) == \E k \in 1..Len(plan.changes) : plan.changes[k][1] = field

\* C37: a File declared with no content, source or template leaves the
\* content of an existing regular file alone: its plan holds no content
\* change, and applying its plan neither rewrites the content nor fails.
C37_NoContentLeavesContent ==
  [][\A i \in Contentless(resources[driver], target) :
       LET d  == heap[resources[driver][i]].decl
           id == Id(d)
       IN  /\ (last'.op = "plan" /\ id \in DOMAIN planResult'.plans)
                 => ~HasChangeOf(planResult'.plans[id], "content")
           /\ last'.op = "apply"
                 => /\ target'.files[d.name].content = target.files[d.name].content
                    /\ id \notin Range(applyResult'.errors)]_vars


\* ------------------------------------------------------------------------
\* Packages with ensure absent
\* ------------------------------------------------------------------------
\* The listed packages of d that are installed on the host t
InstalledOf(d, t) == {n \in Range(PkgList(d)) : t.pkgs[n] # Nil}

AbsentPackages(rs) ==
  {i \in 1..Len(rs) : heap[rs[i]].decl.kind = "pkg" /\ heap[rs[i]].decl.ensure = "absent"}

\* C38: for a Package with ensure absent the plan is none only if none of
\* the listed packages is installed, it is delete whenever one of them is
\* installed, and after a successful apply none of them is installed.
C38_AbsentRemovesAll ==
  [][\A i \in AbsentPackages(resources[driver]) :
       LET d  == heap[resources[driver][i]].decl
           id == Id(d)
       IN  /\ (last'.op = "plan" /\ id \in DOMAIN planResult'.plans) =>
                 /\ planResult'.plans[id].action = "none" => InstalledOf(d, target) = {}
                 /\ InstalledOf(d, target) # {} => planResult'.plans[id].action = "delete"
           /\ (last'.op = "apply" /\ id \in Range(applyResult'.changed)) =>
                 InstalledOf(d, target') = {}]_vars


\* ------------------------------------------------------------------------
\* Drift checks in a row
\* ------------------------------------------------------------------------
\* C39: a check_resource(id) that directly follows a check_resource(id) of
\* the same process, the host unchanged between them, returns a DriftResult
\* as the first did, with the same drifted flag and the same differences.
C39_DriftCheckRepeats ==
  [][(last.op = "drift" /\ drift.found /\ CheckResource(drift.id)) =>
       /\ drift'.found
       /\ drift'.drifted = drift.drifted
       /\ drift'.differences = drift.differences]_vars


\* ------------------------------------------------------------------------
\* Exec in dry_run mode, as the executor accounts for it
\* ------------------------------------------------------------------------
\* The ids of the registered Exec resources declared with dry_run
DryRunIds ==
  {Id(heap[o].decl) :
     o \in {x \in Range(resources[driver]) :
              heap[x].decl.kind = "exec" /\ heap[x].decl.dry_run}}

\* The history entries a step has added
NewHistory(before, after) ==
  {after.history[k].resource_id : k \in (Len(before.history) + 1)..Len(after.history)}

\* C40: an Exec in dry_run mode is not listed in changed_resources by
\* Executor.apply, no history entry records it as applied, and no service
\* is restarted or reloaded because of it.
C40_DryRunChangesNothing ==
  [][(last'.op = "apply" /\ applyResult'.returned) =>
       /\ DryRunIds \cap Range(applyResult'.changed) = {}
       /\ DryRunIds \cap NewHistory(store, store') = {}
       /\ \A d \in Services :
            (Range(d.restart_on) \cup Range(d.reload_on)) \cap Range(applyResult'.changed)
                \subseteq DryRunIds
              => Id(d) \notin Range(Events(trace', "restart")) \cup Range(Events(trace', "reload"))]_vars


====
